---- MODULE Spec2Model ----
(***************************************************************************)
(* Credit ledger consistency checkers (app/admin/account_checking.py),     *)
(* the agent action-cost scan (app/admin/scheduler.py) and the precision   *)
(* repair script (scripts/fix_credit_precision.py).                        *)
(*                                                                         *)
(* Amounts are Decimals; they are modelled as integers counting units of   *)
(* 0.00001, so that 0.0001 (FOURPLACES) is 10 and 0.001 is 100.            *)
(* Timestamps are integers counting days.                                  *)
(***************************************************************************)
EXTENDS Integers, Sequences, FiniteSets, TLC

VARIABLES now, accounts, events, txs, agents, writes, acct, evt, agt, chk, rep, cost, run, ses

ledger == <<accounts, events, txs, agents>>
vars == <<now, accounts, events, txs, agents, writes, acct, evt, agt, chk, rep, cost, run, ses>>

(***************************************************************************)
(* Bounds of the model.                                                    *)
(***************************************************************************)
StartTime == 4
MaxTick == 1
MaxLive == 1
MaxPage == 3
MaxTxs == 1
MaxEventTxs == 2
MaxRuns == 2

(***************************************************************************)
(* Program constants.                                                      *)
(***************************************************************************)
ThreeDays == 3
FOURPLACES == 10
Epsilon == 100
DetailCap == 100

Null == -1

RowIds == {2, 3}
NewIds == {1, 4}
Amounts == {100000}

(***************************************************************************)
(* Generic helpers: ORDER BY id, OFFSET/LIMIT, SUM.                        *)
(***************************************************************************)
Min(a, b) == IF a < b THEN a ELSE b

Abs(x) == IF x < 0 THEN -x ELSE x

OrderById(S) ==
  [i \in 1..Cardinality(S) |->
     CHOOSE r \in S : Cardinality({q \in S : q.id < r.id}) = i - 1]

RECURSIVE OrderAsc(_)
OrderAsc(S) ==
  IF S = {} THEN <<>>
  ELSE LET m == CHOOSE r \in S : \A q \in S : r <= q
       IN <<m>> \o OrderAsc(S \ {m})

OffsetLimitSkipsRow(s, offset, limit) == SubSeq(s, offset + 2, Min(offset + limit + 1, Len(s)))

OffsetLimit(s, offset, limit) == SubSeq(s, offset + 1, Min(offset + limit, Len(s)))

Limit(s, limit) == SubSeq(s, 1, Min(limit, Len(s)))

RECURSIVE SumChange(_)
SumChange(S) ==
  IF S = {} THEN 0
  ELSE LET t == CHOOSE r \in S : TRUE
       IN t.change_amount + SumChange(S \ {t})

RECURSIVE MaxUpdatedAt(_)
MaxUpdatedAt(s) ==
  IF Len(s) = 0 THEN Null
  ELSE LET r == MaxUpdatedAt(Tail(s))
       IN IF Head(s).updated_at > r THEN Head(s).updated_at ELSE r

SeqIds(s) == [i \in 1..Len(s) |-> s[i].id]

Occurrences(s, x) == Cardinality({i \in 1..Len(s) : s[i] = x})

(***************************************************************************)
(* Rows of the three ledger tables.                                        *)
(***************************************************************************)
AccountRow(id, f, r, c, u) ==
  [id |-> id, free_credits |-> f, reward_credits |-> r, credits |-> c, updated_at |-> u]

TxRow(id, a, e, ty, cd, ct, amt, t) ==
  [id |-> id, account_id |-> a, event_id |-> e, tx_type |-> ty, credit_debit |-> cd,
   credit_type |-> ct, change_amount |-> amt, created_at |-> t]

EventRow(id, ty, a, ct, total, bal, base, fp, fa, t) ==
  [id |-> id, event_type |-> ty, account_id |-> a, credit_type |-> ct,
   total_amount |-> total, balance_after |-> bal, base_amount |-> base,
   fee_platform_amount |-> fp, fee_agent_amount |-> fa, created_at |-> t]

Off == [pc |-> "off"]

(***************************************************************************)
(* check_account_balance_consistency                                       *)
(***************************************************************************)
TotalBalance(account) ==
  account.free_credits + account.reward_credits + account.credits

TxWindowStrict(T, account_id, max_updated_at) ==
  {t \in T : t.account_id = account_id /\ t.created_at < max_updated_at}

TxWindow(T, account_id, max_updated_at) ==
  {t \in T : t.account_id = account_id /\ t.created_at <= max_updated_at}

WindowCredits(T, account_id, max_updated_at) ==
  SumChange({t \in TxWindow(T, account_id, max_updated_at) : t.credit_debit = "credit"})

WindowDebits(T, account_id, max_updated_at) ==
  SumChange({t \in TxWindow(T, account_id, max_updated_at) : t.credit_debit = "debit"})

ExpectedBalance(T, account_id, max_updated_at) ==
  WindowCredits(T, account_id, max_updated_at) - WindowDebits(T, account_id, max_updated_at)

AccountResult(account, T, max_updated_at, batch) ==
  [check_type |-> "account_total_balance",
   status |-> (TotalBalance(account) = ExpectedBalance(T, account.id, max_updated_at)),
   id |-> account.id,
   max_updated_at |-> max_updated_at,
   batch |-> batch]

AcctStart ==
  /\ acct.pc = "ready"
  /\ acct' = [acct EXCEPT !.pc = "fetch", !.offset = 0, !.results = <<>>,
                          !.w0 = writes, !.rows0 = {a.id : a \in accounts}]
  /\ UNCHANGED <<now, ledger, writes, evt, agt, chk, rep, cost, run, ses>>

AcctFetch ==
  /\ acct.pc = "fetch"
  /\ LET batch_accounts == OffsetLimit(OrderById(accounts), acct.offset, acct.batch_size)
         batch_max_updated_at == MaxUpdatedAt(batch_accounts)
     IN IF Len(batch_accounts) = 0
        THEN acct' = [acct EXCEPT !.pc = "done", !.batch = <<>>]
        ELSE IF batch_max_updated_at = Null
        THEN acct' = [acct EXCEPT !.offset = @ + acct.batch_size, !.batch = <<>>]
        ELSE acct' = [acct EXCEPT !.pc = "row", !.batch = batch_accounts, !.idx = 1,
                                  !.max = batch_max_updated_at, !.txs0 = txs]
  /\ UNCHANGED <<now, ledger, writes, evt, agt, chk, rep, cost, run, ses>>

AcctCheckRow ==
  /\ acct.pc = "row"
  /\ LET account == acct.batch[acct.idx]
         result == AccountResult(account, txs, acct.max, (acct.offset \div acct.batch_size) + 1)
         last == acct.idx = Len(acct.batch)
     IN acct' = [acct EXCEPT !.results = Append(@, result),
                             !.idx = IF last THEN 1 ELSE @ + 1,
                             !.batch = IF last THEN <<>> ELSE @,
                             !.offset = IF last THEN @ + acct.batch_size ELSE @,
                             !.pc = IF last THEN "fetch" ELSE "row"]
  /\ UNCHANGED <<now, ledger, writes, evt, agt, chk, rep, cost, run, ses>>

(***************************************************************************)
(* check_transaction_balance                                               *)
(***************************************************************************)
EventTxs(T, event_id) == {t \in T : t.event_id = event_id}

CreditSumAnySide(transactions) == SumChange(transactions)

CreditSum(transactions) == SumChange({t \in transactions : t.credit_debit = "credit"})

DebitSum(transactions) == SumChange({t \in transactions : t.credit_debit = "debit"})

EventResult(event, T, batch) ==
  [check_type |-> "transaction_balance",
   status |-> (CreditSum(EventTxs(T, event.id)) = DebitSum(EventTxs(T, event.id))),
   id |-> event.id,
   batch |-> batch]

RecentEvents(E, three_days_ago) == {e \in E : e.created_at >= three_days_ago}

EvtStart ==
  /\ evt.pc = "ready"
  /\ evt' = [evt EXCEPT !.pc = "fetch", !.offset = 0, !.results = <<>>,
                        !.three_days_ago = now - ThreeDays,
                        !.w0 = writes,
                        !.rows0 = {e.id : e \in RecentEvents(events, now - ThreeDays)}]
  /\ UNCHANGED <<now, ledger, writes, acct, agt, chk, rep, cost, run, ses>>

EvtFetch ==
  /\ evt.pc = "fetch"
  /\ LET batch_events == OffsetLimit(OrderById(RecentEvents(events, evt.three_days_ago)),
                                     evt.offset, evt.batch_size)
     IN IF Len(batch_events) = 0
        THEN evt' = [evt EXCEPT !.pc = "done", !.batch = <<>>]
        ELSE evt' = [evt EXCEPT !.pc = "row", !.batch = batch_events, !.idx = 1]
  /\ UNCHANGED <<now, ledger, writes, acct, agt, chk, rep, cost, run, ses>>

EvtCheckRow ==
  /\ evt.pc = "row"
  /\ LET event == evt.batch[evt.idx]
         result == EventResult(event, txs, (evt.offset \div evt.batch_size) + 1)
         last == evt.idx = Len(evt.batch)
     IN evt' = [evt EXCEPT !.results = Append(@, result),
                           !.idx = IF last THEN 1 ELSE @ + 1,
                           !.batch = IF last THEN <<>> ELSE @,
                           !.offset = IF last THEN @ + evt.batch_size ELSE @,
                           !.pc = IF last THEN "fetch" ELSE "row"]
  /\ UNCHANGED <<now, ledger, writes, acct, agt, chk, rep, cost, run, ses>>

(***************************************************************************)
(* update_agent_action_cost: the scan over the agents table.  Agent ids    *)
(* are non-empty strings, modelled as positive integers; last_id = None    *)
(* is Null.                                                                *)
(***************************************************************************)
AfterLastIdInclusive(ids, last_id) ==
  IF last_id # Null THEN {i \in ids : i >= last_id} ELSE ids

AfterLastId(ids, last_id) == IF last_id # Null THEN {i \in ids : i > last_id} ELSE ids

AgtStart ==
  /\ agt.pc = "ready"
  /\ agt' = [agt EXCEPT !.pc = "fetch", !.last_id = Null, !.results = <<>>,
                        !.w0 = writes, !.rows0 = agents]
  /\ UNCHANGED <<now, ledger, writes, acct, evt, chk, rep, cost, run, ses>>

AgtFetch ==
  /\ agt.pc = "fetch"
  /\ LET agent_ids == Limit(OrderAsc(AfterLastId(agents, agt.last_id)), agt.batch_size)
     IN IF Len(agent_ids) = 0
        THEN agt' = [agt EXCEPT !.pc = "done", !.batch = <<>>]
        ELSE agt' = [agt EXCEPT !.pc = "row", !.batch = agent_ids, !.idx = 1,
                                !.last_id = agent_ids[Len(agent_ids)]]
  /\ UNCHANGED <<now, ledger, writes, acct, evt, chk, rep, cost, run, ses>>

AgtUpdate ==
  /\ agt.pc = "row"
  /\ LET agent_id == agt.batch[agt.idx]
         last == agt.idx = Len(agt.batch)
     IN agt' = [agt EXCEPT !.results = Append(@, [id |-> agent_id]),
                           !.idx = IF last THEN 1 ELSE @ + 1,
                           !.batch = IF last THEN <<>> ELSE @,
                           !.pc = IF last THEN "fetch" ELSE "row"]
  /\ UNCHANGED <<now, ledger, writes, acct, evt, chk, rep, cost, run, ses>>

(***************************************************************************)
(* check_orphaned_transactions, check_orphaned_events                      *)
(***************************************************************************)
NoRow == [id |-> Null]

TxLeftJoinEventsOnAccount ==
  {<<t, e>> \in txs \X (events \cup {NoRow}) :
     IF \E m \in events : t.account_id = m.id THEN e # NoRow /\ t.account_id = e.id ELSE e = NoRow}

TxLeftJoinEvents ==
  {<<t, e>> \in txs \X (events \cup {NoRow}) :
     IF \E m \in events : t.event_id = m.id THEN e # NoRow /\ t.event_id = e.id ELSE e = NoRow}

EventLeftJoinTxs ==
  {<<e, t>> \in events \X (txs \cup {NoRow}) :
     IF \E m \in txs : m.event_id = e.id THEN t # NoRow /\ t.event_id = e.id ELSE t = NoRow}

OrphanedTxRows == {r[1] : r \in {j \in TxLeftJoinEvents : j[2].id = Null}}

OrphanedEventRows == {r[1] : r \in {j \in EventLeftJoinTxs : j[2].id = Null}}

OrphanedTransactionsResult ==
  LET orphaned_txs == OrderById(OrphanedTxRows)
  IN [check_type |-> "orphaned_transactions",
      status |-> (Len(orphaned_txs) = 0),
      orphaned_count |-> Len(orphaned_txs),
      details |-> Limit(orphaned_txs, DetailCap)]

OrphanedEventsResult ==
  LET orphaned_events == OrderById(OrphanedEventRows)
  IN IF Len(orphaned_events) = 0
     THEN [check_type |-> "orphaned_events", status |-> TRUE,
           orphaned_count |-> Null, details |-> <<>>]
     ELSE [check_type |-> "orphaned_events", status |-> FALSE,
           orphaned_count |-> Len(orphaned_events), details |-> orphaned_events]

(***************************************************************************)
(* check_total_credit_balance, check_transaction_total_balance             *)
(***************************************************************************)
RECURSIVE SumField(_, _)
SumField(S, f) ==
  IF S = {} THEN 0
  ELSE LET r == CHOOSE q \in S : TRUE
       IN r[f] + SumField(S \ {r}, f)

CloseToZeroInclusive(x) == Abs(x) <= Epsilon

CloseToZero(x) == Abs(x) < Epsilon

TotalCreditBalanceResult ==
  LET grand_total == SumField(accounts, "free_credits") + SumField(accounts, "reward_credits")
                       + SumField(accounts, "credits")
      is_balanced == grand_total = 0
      warning == ~is_balanced /\ CloseToZero(grand_total)
  IN [check_type |-> "total_credit_balance",
      status |-> (is_balanced \/ warning),
      warning |-> warning,
      value |-> grand_total]

TransactionTotalBalanceResult ==
  LET total_credits == SumChange({t \in txs : t.credit_debit = "credit"})
      total_debits == SumChange({t \in txs : t.credit_debit = "debit"})
      difference == total_credits - total_debits
      is_balanced == difference = 0
      warning == ~is_balanced /\ CloseToZero(difference)
  IN [check_type |-> "transaction_total_balance",
      status |-> (is_balanced \/ warning),
      warning |-> warning,
      value |-> difference]

(***************************************************************************)
(* run_quick_checks: the four single-query checks, in program order.       *)
(***************************************************************************)
CheckOrphanedTransactions ==
  /\ chk.pc = "orphaned_transactions"
  /\ chk' = [chk EXCEPT !.pc = "orphaned_events",
                        !.orphaned_transactions = OrphanedTransactionsResult]
  /\ UNCHANGED <<now, ledger, writes, acct, evt, agt, rep, cost, run, ses>>

CheckOrphanedEvents ==
  /\ chk.pc = "orphaned_events"
  /\ chk' = [chk EXCEPT !.pc = "total_credit_balance",
                        !.orphaned_events = OrphanedEventsResult]
  /\ UNCHANGED <<now, ledger, writes, acct, evt, agt, rep, cost, run, ses>>

CheckTotalCreditBalance ==
  /\ chk.pc = "total_credit_balance"
  /\ chk' = [chk EXCEPT !.pc = "transaction_total_balance",
                        !.total_credit_balance = TotalCreditBalanceResult]
  /\ UNCHANGED <<now, ledger, writes, acct, evt, agt, rep, cost, run, ses>>

CheckTransactionTotalBalance ==
  /\ chk.pc = "transaction_total_balance"
  /\ chk' = [chk EXCEPT !.pc = "done",
                        !.transaction_total_balance = TransactionTotalBalanceResult]
  /\ UNCHANGED <<now, ledger, writes, acct, evt, agt, rep, cost, run, ses>>

(***************************************************************************)
(* scripts/fix_credit_precision.py                                         *)
(*                                                                         *)
(* The script works in one session: rep.s_events, rep.s_txs and            *)
(* rep.s_accounts are the rows the session holds with their pending        *)
(* changes; the tables change at the commit only.                          *)
(***************************************************************************)
QuantizeTruncates(x) ==
  LET q == (Abs(x) \div FOURPLACES) * FOURPLACES
  IN IF x < 0 THEN -q ELSE q

Quantize(x) ==
  LET q == ((Abs(x) + (FOURPLACES \div 2)) \div FOURPLACES) * FOURPLACES
  IN IF x < 0 THEN -q ELSE q

OrZero(x) == IF x = Null THEN 0 ELSE x

CorrectTotal(event) ==
  Quantize(event.base_amount + OrZero(event.fee_platform_amount)
             + OrZero(event.fee_agent_amount))

ChargeEvents(E) == {e \in E : e.event_type \in {"message", "skill_call"}}

MessageEvents(E) == {e \in E : e.event_type = "message"}

FixedEventKeepsTotal(event, correct_total, difference) ==
  [event EXCEPT !.balance_after = IF @ # Null THEN Quantize(@ - difference) ELSE @]

FixedEvent(event, correct_total, difference) ==
  [event EXCEPT !.total_amount = correct_total,
                !.balance_after = IF @ # Null THEN Quantize(@ - difference) ELSE @]

PayTxs(T, event_id) == {t \in T : t.event_id = event_id /\ t.tx_type = "pay"}

FixedAccountWrongSign(account, credit_type, difference) ==
  IF credit_type = "credits"
  THEN [account EXCEPT !.credits = Quantize(@ + difference)]
  ELSE IF credit_type = "free_credits"
  THEN [account EXCEPT !.free_credits = Quantize(@ + difference)]
  ELSE IF credit_type = "reward_credits"
  THEN [account EXCEPT !.reward_credits = Quantize(@ + difference)]
  ELSE account

FixedAccount(account, credit_type, difference) ==
  IF credit_type = "credits"
  THEN [account EXCEPT !.credits = Quantize(@ - difference)]
  ELSE IF credit_type = "free_credits"
  THEN [account EXCEPT !.free_credits = Quantize(@ - difference)]
  ELSE IF credit_type = "reward_credits"
  THEN [account EXCEPT !.reward_credits = Quantize(@ - difference)]
  ELSE account

SessionAccountFresh(account_id) == {a \in accounts : a.id = account_id}

SessionAccount(account_id) ==
  IF \E a \in rep.s_accounts : a.id = account_id
  THEN {a \in rep.s_accounts : a.id = account_id}
  ELSE {a \in accounts : a.id = account_id}

ReplaceRow(S, row) == {r \in S : r.id # row.id} \cup {row}

Snapshot == [accounts |-> accounts, events |-> events, txs |-> txs]

RepStart ==
  /\ rep.pc \in {"ready", "done", "failed"}
  /\ rep.runs < MaxRuns
  /\ rep' = [rep EXCEPT !.pc = "run", !.runs = @ + 1, !.fixed_count = 0,
                        !.s_events = MessageEvents(events),
                        !.pending = {e.id : e \in MessageEvents(events)},
                        !.s_txs = {}, !.s_accounts = {}, !.dirty = {},
                        !.before = Snapshot]
  /\ UNCHANGED <<now, ledger, writes, acct, evt, agt, chk, cost, run, ses>>

RepairEventNeedsPay(event) ==
  /\ rep.pc = "run"
  /\ event \in rep.s_events
  /\ event.id \in rep.pending
  /\ LET correct_total == CorrectTotal(event)
         difference == correct_total - event.total_amount
         transactions == PayTxs(txs, event.id)
         account == SessionAccount(event.account_id)
     IN IF event.total_amount = correct_total \/ transactions = {} \/ account = {}
        THEN rep' = [rep EXCEPT !.pending = @ \ {event.id}]
        ELSE IF Cardinality(transactions) > 1
        THEN rep' = [rep EXCEPT !.pc = "failed", !.pending = {}, !.s_events = {},
                                !.s_txs = {}, !.s_accounts = {}, !.dirty = {},
                                !.history = Append(@, [outcome |-> "failed", fixed_count |-> 0,
                                                       ledger |-> Snapshot])]
        ELSE rep' = [rep EXCEPT
               !.pending = @ \ {event.id},
               !.s_events = ReplaceRow(@, FixedEvent(event, correct_total, difference)),
               !.s_txs = @ \cup {[t EXCEPT !.change_amount = correct_total] : t \in transactions},
               !.s_accounts = ReplaceRow(@, FixedAccount(CHOOSE a \in account : TRUE,
                                                         event.credit_type, difference)),
               !.dirty = @ \cup {<<event.account_id, event.credit_type>>},
               !.fixed_count = @ + 1]
  /\ UNCHANGED <<now, ledger, writes, acct, evt, agt, chk, cost, run, ses>>

RepairEvent(event) ==
  /\ rep.pc = "run"
  /\ event \in rep.s_events
  /\ event.id \in rep.pending
  /\ LET correct_total == CorrectTotal(event)
         difference == correct_total - event.total_amount
         transactions == PayTxs(txs, event.id)
         account == SessionAccount(event.account_id)
     IN IF event.total_amount = correct_total
        THEN rep' = [rep EXCEPT !.pending = @ \ {event.id}]
        ELSE IF Cardinality(transactions) > 1
        THEN rep' = [rep EXCEPT !.pc = "failed", !.pending = {}, !.s_events = {},
                                !.s_txs = {}, !.s_accounts = {}, !.dirty = {},
                                !.history = Append(@, [outcome |-> "failed", fixed_count |-> 0,
                                                       ledger |-> Snapshot])]
        ELSE rep' = [rep EXCEPT
               !.pending = @ \ {event.id},
               !.s_events = ReplaceRow(@, FixedEvent(event, correct_total, difference)),
               !.s_txs = @ \cup {[t EXCEPT !.change_amount = correct_total] : t \in transactions},
               !.s_accounts = IF account = {} THEN @
                              ELSE ReplaceRow(@, FixedAccount(CHOOSE a \in account : TRUE,
                                                              event.credit_type, difference)),
               !.dirty = IF account = {} THEN @
                         ELSE @ \cup {<<event.account_id, event.credit_type>>},
               !.fixed_count = @ + 1]
  /\ UNCHANGED <<now, ledger, writes, acct, evt, agt, chk, cost, run, ses>>

CommittedAccount(a) ==
  [f \in DOMAIN a |->
     IF <<a.id, f>> \in rep.dirty
     THEN (CHOOSE s \in rep.s_accounts : s.id = a.id)[f]
     ELSE a[f]]

RepCommit ==
  /\ rep.pc = "run"
  /\ rep.pending = {}
  /\ events' = {IF \E s \in rep.s_events : s.id = e.id
                THEN CHOOSE s \in rep.s_events : s.id = e.id ELSE e : e \in events}
  /\ txs' = {IF \E s \in rep.s_txs : s.id = t.id
             THEN CHOOSE s \in rep.s_txs : s.id = t.id ELSE t : t \in txs}
  /\ accounts' = {CommittedAccount(a) : a \in accounts}
  /\ rep' = [rep EXCEPT !.pc = "done", !.s_events = {}, !.s_txs = {}, !.s_accounts = {},
                        !.dirty = {},
                        !.history = Append(@, [outcome |-> "done", fixed_count |-> rep.fixed_count,
                                               ledger |-> [accounts |-> accounts',
                                                           events |-> events', txs |-> txs']])]
  /\ UNCHANGED <<now, agents, writes, acct, evt, agt, chk, cost, run, ses>>

(***************************************************************************)
(* The live write path and the clock.  Rows are written with the current   *)
(* clock value; the clock advances on its own.                             *)
(***************************************************************************)
Tick ==
  /\ now < StartTime + MaxTick
  /\ now' = now + 1
  /\ UNCHANGED <<ledger, writes, acct, evt, agt, chk, rep, cost, run, ses>>

InsertAccount(id) ==
  /\ acct.pc \in {"fetch", "row"}
  /\ writes < MaxLive
  /\ id \notin {a.id : a \in accounts}
  /\ accounts' = accounts \cup {AccountRow(id, 0, 0, 0, now)}
  /\ writes' = writes + 1
  /\ UNCHANGED <<now, events, txs, agents, acct, evt, agt, chk, rep, cost, run, ses>>

RECURSIVE MaxId(_)
MaxId(S) ==
  IF S = {} THEN 0
  ELSE LET r == CHOOSE q \in S : TRUE
           m == MaxId(S \ {r})
       IN IF r.id > m THEN r.id ELSE m

NextTxId == MaxId(txs) + 1

LiveWrite(a, cd, amt) ==
  /\ acct.pc \in {"fetch", "row"}
  /\ writes < MaxLive
  /\ a \in accounts
  /\ txs' = txs \cup {TxRow(NextTxId, a.id, 0, "pay", cd, "free_credits", amt, now)}
  /\ accounts' = (accounts \ {a}) \cup
       {[a EXCEPT !.free_credits = IF cd = "credit" THEN @ + amt ELSE @ - amt,
                  !.updated_at = now]}
  /\ writes' = writes + 1
  /\ UNCHANGED <<now, events, agents, acct, evt, agt, chk, rep, cost, run, ses>>

InsertEvent(id, amt) ==
  /\ evt.pc \in {"fetch", "row"}
  /\ writes < MaxLive
  /\ id \notin {e.id : e \in events}
  /\ events' = events \cup {EventRow(id, "message", 2, "free_credits", amt, 0, amt, 0, 0, now)}
  /\ txs' = txs \cup {TxRow(NextTxId, 2, id, "pay", "debit", "free_credits", amt, now),
                      TxRow(NextTxId + 1, 3, id, "receive_base", "credit", "free_credits", amt, now)}
  /\ writes' = writes + 1
  /\ UNCHANGED <<now, accounts, agents, acct, evt, agt, chk, rep, cost, run, ses>>

InsertAgent(id) ==
  /\ agt.pc \in {"fetch", "row"}
  /\ writes < MaxLive
  /\ id \notin agents
  /\ agents' = agents \cup {id}
  /\ writes' = writes + 1
  /\ UNCHANGED <<now, accounts, events, txs, acct, evt, agt, chk, rep, cost, run, ses>>

(***************************************************************************)
(* Initial states of a slow-check run.                                     *)
(***************************************************************************)
Balances == {<<0, 0, 0>>, <<100000, 0, 0>>, <<0, 100000, -100000>>}

InitAccountRows ==
  {AccountRow(id, b[1], b[2], b[3], u) :
     id \in RowIds, b \in Balances, u \in {StartTime - 1, StartTime}}

InitTxRows(i) ==
  {TxRow(i, a, 0, "pay", cd, "free_credits", amt, t) :
     a \in RowIds, cd \in {"credit", "debit"}, amt \in Amounts,
     t \in {StartTime - 1, StartTime}}

UniqueIds(S) == \A r, q \in S : r.id = q.id => r = q

InitAccounts ==
  /\ now = StartTime
  /\ accounts \in {S \in SUBSET InitAccountRows : UniqueIds(S)}
  /\ \E n \in 0..MaxTxs : txs \in {S \in SUBSET UNION {InitTxRows(i) : i \in 1..n} :
                                     UniqueIds(S) /\ Cardinality(S) = n}
  /\ events = {}
  /\ agents = {}
  /\ writes = 0
  /\ \E p \in 1..MaxPage :
       acct = [pc |-> "ready", batch_size |-> p, offset |-> 0, batch |-> <<>>, idx |-> 1,
               max |-> Null, results |-> <<>>, w0 |-> 0, rows0 |-> {}, txs0 |-> {}]
  /\ evt = Off
  /\ agt = Off
  /\ chk = Off
  /\ rep = Off
  /\ cost = Off
  /\ run = Off
  /\ ses = Off

(***************************************************************************)
(* Initial states of a quick-check run of the event balance checker.       *)
(***************************************************************************)
Scanner(p) ==
  [pc |-> "ready", batch_size |-> p, offset |-> 0, batch |-> <<>>, idx |-> 1,
   results |-> <<>>, w0 |-> 0, rows0 |-> {}]

InitEventRows ==
  {EventRow(id, "message", 2, "free_credits", 0, 0, 0, 0, 0, t) :
     id \in RowIds, t \in {StartTime - ThreeDays - 1, StartTime - ThreeDays, StartTime}}

TxBodies == {<<"credit", 100000>>, <<"debit", 100000>>, <<"debit", 0>>}

TxShapes == UNION {[1..n -> TxBodies] : n \in 0..MaxEventTxs}

EventTxRows(e, shape) ==
  {TxRow((e - 2) * MaxEventTxs + k, 2, e, "pay", shape[k][1], "free_credits", shape[k][2], StartTime) :
     k \in 1..Len(shape)}

InitEvents ==
  /\ now = StartTime
  /\ accounts = {}
  /\ events \in {S \in SUBSET InitEventRows : UniqueIds(S)}
  /\ \E shape \in [RowIds -> TxShapes] :
       txs = UNION {EventTxRows(e, shape[e]) : e \in RowIds}
  /\ agents = {}
  /\ writes = 0
  /\ acct = Off
  /\ \E p \in 1..MaxPage : evt = [Scanner(p) EXCEPT !.pc = "ready"] @@ [three_days_ago |-> Null]
  /\ agt = Off
  /\ chk = Off
  /\ rep = Off
  /\ cost = Off
  /\ run = Off
  /\ ses = Off

InitAgents ==
  /\ now = StartTime
  /\ accounts = {}
  /\ events = {}
  /\ txs = {}
  /\ agents \in SUBSET RowIds
  /\ writes = 0
  /\ acct = Off
  /\ evt = Off
  /\ \E p \in 1..MaxPage : agt = Scanner(p) @@ [last_id |-> Null]
  /\ chk = Off
  /\ rep = Off
  /\ cost = Off
  /\ run = Off
  /\ ses = Off

(***************************************************************************)
(* Initial states of the single-query checks: a ledger with events with    *)
(* and without transactions, transactions with and without event, and      *)
(* account balances around the tolerance.                                  *)
(***************************************************************************)
QuickTxBodies ==
  {<<"credit", 100000>>, <<"debit", 100000>>, <<"debit", 99950>>, <<"debit", 99900>>}

QuickTxShapes == UNION {[1..n -> QuickTxBodies] : n \in 0..MaxEventTxs}

QuickAccountSets ==
  {{AccountRow(1, 2000000, 3000000, 0, StartTime), AccountRow(2, -2000000, 0, 0, StartTime),
    AccountRow(3, 0, 0, c, StartTime)} :
      c \in {-3000000, -2999950, -2999901, -2999900, -3000099, -3000100, -2500000}}

StrayTxRow == TxRow(99, 2, 999, "pay", "debit", "free_credits", 100000, StartTime)

NoResult == [check_type |-> "", status |-> FALSE]

InitQuick ==
  /\ now = StartTime
  /\ accounts \in {{r \in S : r.id <= n} : S \in QuickAccountSets, n \in 0..3}
  /\ events \in SUBSET {EventRow(id, "message", 2, "free_credits", 0, 0, 0, 0, 0, StartTime) :
                          id \in RowIds}
  /\ \E shape \in [RowIds -> QuickTxShapes], stray \in SUBSET {StrayTxRow} :
       txs = UNION {EventTxRows(e, shape[e]) : e \in RowIds} \cup stray
  /\ agents = {}
  /\ writes = 0
  /\ acct = Off
  /\ evt = Off
  /\ agt = Off
  /\ chk = [pc |-> "orphaned_transactions", orphaned_transactions |-> NoResult,
            orphaned_events |-> NoResult, total_credit_balance |-> NoResult,
            transaction_total_balance |-> NoResult]
  /\ rep = Off
  /\ cost = Off
  /\ run = Off
  /\ ses = Off

NextQuick ==
  \/ CheckOrphanedTransactions
  \/ CheckOrphanedEvents
  \/ CheckTotalCreditBalance
  \/ CheckTransactionTotalBalance

SpecQuick == InitQuick /\ [][NextQuick]_vars

(***************************************************************************)
(* Initial states of the repair script: events with right and wrong        *)
(* totals, with or without PAY transaction and account.                    *)
(***************************************************************************)
EventAmounts ==
  {<<100010, 100010, 5, 5>>, <<100020, 100010, Null, 5>>, <<100030, 100010, 5, 0>>}

CreditTypes == {"free_credits", "reward_credits", "credits"}

RepairEventRows(id) ==
  {EventRow(id, ty, a, ct, m[1], bal, m[2], m[3], m[4], StartTime) :
     ty \in {"message", "skill_call"}, a \in {1, 9}, ct \in CreditTypes,
     m \in EventAmounts, bal \in {Null, 500000}}

RepairTxRows(event, shape) ==
  IF shape = 0 THEN {}
  ELSE {TxRow(10 * event.id + 1, event.account_id, event.id, "pay", "debit",
              event.credit_type, event.total_amount, StartTime),
        TxRow(10 * event.id + 2, 7, event.id,
              IF shape = 1 THEN "receive_base_skill" ELSE "pay",
              IF shape = 1 THEN "credit" ELSE "debit",
              event.credit_type, event.total_amount, StartTime)}

RepairAccountRows ==
  {AccountRow(1, 500000, 500000, 500000, StartTime),
   AccountRow(7, -500000, -500000, -500000, StartTime)}

Bucket(T, account_id, credit_type) ==
  CreditSum({t \in T : t.account_id = account_id /\ t.credit_type = credit_type})
    - DebitSum({t \in T : t.account_id = account_id /\ t.credit_type = credit_type})

LedgerAccountRows(T) ==
  {AccountRow(id, Bucket(T, id, "free_credits"), Bucket(T, id, "reward_credits"),
              Bucket(T, id, "credits"), StartTime) : id \in {1, 7}}

InitRepair ==
  /\ now = StartTime
  /\ \E ids \in SUBSET RowIds :
       \E row \in [ids -> UNION {RepairEventRows(id) : id \in RowIds}], shape \in [ids -> 0..2] :
         /\ \A id \in ids : row[id].id = id
         /\ events = {row[id] : id \in ids}
         /\ txs = UNION {RepairTxRows(row[id], shape[id]) : id \in ids}
  /\ accounts \in {RepairAccountRows, LedgerAccountRows(txs)}
  /\ agents = {}
  /\ writes = 0
  /\ acct = Off
  /\ evt = Off
  /\ agt = Off
  /\ chk = Off
  /\ rep = [pc |-> "ready", runs |-> 0, fixed_count |-> 0, pending |-> {},
            s_events |-> {}, s_txs |-> {}, s_accounts |-> {}, dirty |-> {},
            before |-> [accounts |-> {}, events |-> {}, txs |-> {}], history |-> <<>>]
  /\ cost = Off
  /\ run = Off
  /\ ses = Off

NextRepair ==
  \/ RepStart
  \/ \E event \in rep.s_events : RepairEvent(event)
  \/ RepCommit

SpecRepair == InitRepair /\ [][NextRepair]_vars

(***************************************************************************)
(* The repair script next to live traffic: while a repair run is under     *)
(* way a live balance mutation commits, changing one bucket of one account *)
(* and inserting its transaction.  Every repaired event has its PAY        *)
(* transaction and its account, and every account starts equal to the      *)
(* signed sum of its transactions.                                         *)
(***************************************************************************)
LiveMutation(a, credit_type, cd, amt) ==
  /\ rep.pc = "run"
  /\ writes < MaxLive
  /\ a \in accounts
  /\ txs' = txs \cup {TxRow(NextTxId, a.id, 0, IF cd = "credit" THEN "recharge" ELSE "pay",
                            cd, credit_type, amt, now)}
  /\ accounts' = (accounts \ {a}) \cup
       {[a EXCEPT ![credit_type] = IF cd = "credit" THEN @ + amt ELSE @ - amt,
                  !.updated_at = now]}
  /\ writes' = writes + 1
  /\ UNCHANGED <<now, events, agents, acct, evt, agt, chk, rep, cost, run, ses>>

RepairLiveEventRows(id) ==
  {EventRow(id, "message", 1, ct, m[1], 500000, m[2], m[3], m[4], StartTime) :
     ct \in CreditTypes, m \in EventAmounts}

InitRepairLive ==
  /\ now = StartTime
  /\ \E ids \in SUBSET RowIds :
       \E row \in [ids -> UNION {RepairLiveEventRows(id) : id \in RowIds}] :
         /\ \A id \in ids : row[id].id = id
         /\ events = {row[id] : id \in ids}
         /\ txs = UNION {RepairTxRows(row[id], 1) : id \in ids}
  /\ accounts = LedgerAccountRows(txs)
  /\ agents = {}
  /\ writes = 0
  /\ acct = Off
  /\ evt = Off
  /\ agt = Off
  /\ chk = Off
  /\ rep = [pc |-> "ready", runs |-> 0, fixed_count |-> 0, pending |-> {},
            s_events |-> {}, s_txs |-> {}, s_accounts |-> {}, dirty |-> {},
            before |-> [accounts |-> {}, events |-> {}, txs |-> {}], history |-> <<>>]
  /\ cost = Off
  /\ run = Off
  /\ ses = Off

NextRepairLive ==
  \/ RepStart
  \/ \E event \in rep.s_events : RepairEvent(event)
  \/ RepCommit
  \/ \E a \in accounts, credit_type \in CreditTypes, cd \in {"credit", "debit"}, amt \in Amounts :
       LiveMutation(a, credit_type, cd, amt)

SpecRepairLive == InitRepairLive /\ [][NextRepairLive]_vars

(***************************************************************************)
(* agent_action_cost (app/core/agent.py): the three queries over            *)
(* credit_events and the result built from them.  An average is kept as    *)
(* the pair <<sum, count>> until it is quantized.                          *)
(***************************************************************************)
MinRecords == 10
DefaultValue == 100000
Quintiles == 5

CostEventRow(id, agent_id, t, upstream, ty, start, total) ==
  [id |-> id, agent_id |-> agent_id, created_at |-> t, upstream_type |-> upstream,
   event_type |-> ty, start_message_id |-> start, total_amount |-> total]

ActionFilter(E, agent_id, three_days_ago) ==
  {e \in E : /\ e.agent_id = agent_id
             /\ e.created_at >= three_days_ago
             /\ e.upstream_type = "executor"
             /\ e.event_type \in {"message", "skill_call"}
             /\ e.start_message_id # Null}

CountDistinct(E, agent_id, three_days_ago) ==
  Cardinality({e.start_message_id : e \in ActionFilter(E, agent_id, three_days_ago)})

ActionSums(E, agent_id, three_days_ago) ==
  LET F == ActionFilter(E, agent_id, three_days_ago)
  IN {[start_message_id |-> m,
       action_cost |-> SumField({e \in F : e.start_message_id = m}, "total_amount")] :
        m \in {e.start_message_id : e \in F}}

RECURSIVE OrderByCost(_)
OrderByCost(S) ==
  IF S = {} THEN <<>>
  ELSE LET m == CHOOSE r \in S : \A q \in S : r.action_cost <= q.action_cost
       IN <<m>> \o OrderByCost(S \ {m})

NtileSize(n, b) == (n \div Quintiles) + (IF b <= n % Quintiles THEN 1 ELSE 0)

RECURSIVE NtileFirst(_, _)
NtileFirst(n, b) == IF b = 1 THEN 1 ELSE NtileFirst(n, b - 1) + NtileSize(n, b - 1)

NtileCeil(n, r) == ((r * Quintiles) + n - 1) \div n

Ntile(n, r) ==
  CHOOSE b \in 1..Quintiles : NtileFirst(n, b) <= r /\ r < NtileFirst(n, b) + NtileSize(n, b)

RECURSIVE SumCost(_, _)
SumCost(s, I) ==
  IF I = {} THEN 0
  ELSE LET i == CHOOSE j \in I : TRUE
       IN s[i].action_cost + SumCost(s, I \ {i})

Avg(s, I) == [sum |-> SumCost(s, I), count |-> Cardinality(I)]

IsNullAvg(a) == a.count = 0

BasicMetrics(E, agent_id, three_days_ago) ==
  LET s == OrderByCost(ActionSums(E, agent_id, three_days_ago))
  IN [avg_cost |-> Avg(s, 1..Len(s)),
      min_cost |-> IF Len(s) = 0 THEN Null ELSE s[1].action_cost,
      max_cost |-> IF Len(s) = 0 THEN Null ELSE s[Len(s)].action_cost]

PercentileMetrics(E, agent_id, three_days_ago) ==
  LET s == OrderByCost(ActionSums(E, agent_id, three_days_ago))
      n == Len(s)
  IN [found |-> n > 0,
      low_cost |-> Avg(s, {r \in 1..n : Ntile(n, r) = 1}),
      medium_cost |-> Avg(s, {r \in 1..n : Ntile(n, r) \in {2, 3, 4}}),
      high_cost |-> Avg(s, {r \in 1..n : Ntile(n, r) = 5})]

QuantizeRatio(num, den) ==
  LET d == den * FOURPLACES
      q == num \div d
      r == num - (q * d)
  IN (IF 2 * r > d THEN q + 1
      ELSE IF 2 * r = d THEN q + (q % 2)
      ELSE q) * FOURPLACES

QuantizeAvg(a) == QuantizeRatio(a.sum, a.count)

Defaults ==
  [avg_action_cost |-> DefaultValue, min_action_cost |-> DefaultValue,
   max_action_cost |-> DefaultValue, low_action_cost |-> DefaultValue,
   medium_action_cost |-> DefaultValue, high_action_cost |-> DefaultValue]

CostResult(basic_row, percentile_row) ==
  IF IsNullAvg(basic_row.avg_cost)
  THEN Defaults
  ELSE [avg_action_cost |-> QuantizeAvg(basic_row.avg_cost),
        min_action_cost |-> QuantizeRatio(basic_row.min_cost, 1),
        max_action_cost |-> QuantizeRatio(basic_row.max_cost, 1),
        low_action_cost |-> IF percentile_row.found /\ ~IsNullAvg(percentile_row.low_cost)
                            THEN QuantizeAvg(percentile_row.low_cost) ELSE DefaultValue,
        medium_action_cost |-> IF percentile_row.found /\ ~IsNullAvg(percentile_row.medium_cost)
                               THEN QuantizeAvg(percentile_row.medium_cost) ELSE DefaultValue,
        high_action_cost |-> IF percentile_row.found /\ ~IsNullAvg(percentile_row.high_cost)
                             THEN QuantizeAvg(percentile_row.high_cost) ELSE DefaultValue]

UseDefaultsInclusive(record_count) == record_count <= MinRecords

UseDefaults(record_count) == record_count < MinRecords

CostCount ==
  /\ cost.pc = "count"
  /\ LET three_days_ago == now - ThreeDays
         record_count == CountDistinct(events, cost.agent_id, three_days_ago)
     IN cost' = [cost EXCEPT !.three_days_ago = three_days_ago,
                             !.record_count = record_count,
                             !.result = IF UseDefaults(record_count) THEN Defaults ELSE @,
                             !.pc = IF UseDefaults(record_count) THEN "done" ELSE "basic"]
  /\ UNCHANGED <<now, ledger, writes, acct, evt, agt, chk, rep, run, ses>>

CostBasic ==
  /\ cost.pc = "basic"
  /\ cost' = [cost EXCEPT !.basic_row = BasicMetrics(events, cost.agent_id, cost.three_days_ago),
                          !.pc = "percentile"]
  /\ UNCHANGED <<now, ledger, writes, acct, evt, agt, chk, rep, run, ses>>

CostPercentile ==
  /\ cost.pc = "percentile"
  /\ LET percentile_row == PercentileMetrics(events, cost.agent_id, cost.three_days_ago)
     IN cost' = [cost EXCEPT !.result = CostResult(cost.basic_row, percentile_row),
                             !.pc = "done"]
  /\ UNCHANGED <<now, ledger, writes, acct, evt, agt, chk, rep, run, ses>>

(***************************************************************************)
(* Initial states of agent_action_cost: MinActions..MaxActions actions of  *)
(* agent 1 with several cost profiles, the last action optionally split    *)
(* in two events, and events the filter must leave out.                    *)
(***************************************************************************)
MinActions == 8
MaxActions == 12

BaseCosts == <<1, 1, 1, 1, 2, 2, 2, 3, 3, 4, 5, 10>>

ProfileCost(k, n, i) ==
  IF k = 1 THEN (IF i <= Len(BaseCosts) THEN BaseCosts[i] ELSE 10) * 100000
  ELSE IF k = 2 THEN 200000
  ELSE IF k = 3 THEN 100000 + (10 * (i \div 2))
  ELSE IF k = 4 THEN (n + 1 - i) * 100000
  ELSE 100000 + (30 * i * i)

Profiles == 1..5

ActionEvents(k, n, split) ==
  {CostEventRow(i, 1, IF i = 1 THEN StartTime - ThreeDays ELSE StartTime, "executor",
                IF i % 2 = 1 THEN "message" ELSE "skill_call", 100 + i,
                IF split /\ i = n THEN ProfileCost(k, n, i) - 30000 ELSE ProfileCost(k, n, i)) :
     i \in 1..n}
  \cup (IF split THEN {CostEventRow(n + 1, 1, StartTime, "executor", "skill_call", 100 + n, 30000)}
        ELSE {})

FilteredOutEvents ==
  {CostEventRow(51, 2, StartTime, "executor", "message", 201, 900000),
   CostEventRow(52, 1, StartTime - ThreeDays - 1, "executor", "message", 202, 900000),
   CostEventRow(53, 1, StartTime, "api", "message", 203, 900000),
   CostEventRow(54, 1, StartTime, "executor", "recharge", 204, 900000),
   CostEventRow(55, 1, StartTime, "executor", "message", Null, 900000)}

InitCost ==
  /\ now = StartTime
  /\ accounts = {}
  /\ \E k \in Profiles, n \in MinActions..MaxActions, split \in BOOLEAN,
        noise \in SUBSET FilteredOutEvents :
       events = ActionEvents(k, n, split) \cup noise
  /\ txs = {}
  /\ agents = {1}
  /\ writes = 0
  /\ acct = Off
  /\ evt = Off
  /\ agt = Off
  /\ chk = Off
  /\ rep = Off
  /\ cost = [pc |-> "count", agent_id |-> 1, three_days_ago |-> Null, record_count |-> Null,
             basic_row |-> [avg_cost |-> [sum |-> 0, count |-> 0], min_cost |-> Null,
                            max_cost |-> Null],
             result |-> Defaults]
  /\ run = Off
  /\ ses = Off

NextCost ==
  \/ CostCount
  \/ CostBasic
  \/ CostPercentile

SpecCost == InitCost /\ [][NextCost]_vars

(***************************************************************************)
(* run_quick_checks, run_slow_checks (app/admin/account_checking.py) and   *)
(* the scheduled jobs run_quick_account_checks, run_slow_account_checks    *)
(* (app/checker.py).  run[j] holds the local variables of job j: every     *)
(* invocation has its own results, offset and three_days_ago.  A paged     *)
(* checker takes one step per page.                                        *)
(***************************************************************************)
MaxJobs == 2
MaxStarts == 3

Jobs == 1..MaxJobs

QuickChecks ==
  <<"transaction_balance", "orphaned_transactions", "orphaned_events",
    "total_credit_balance", "transaction_total_balance">>

SlowChecks == <<"account_balance">>

Checks(kind) == IF kind = "quick" THEN QuickChecks ELSE SlowChecks

CheckerPcs == {QuickChecks[i] : i \in 1..Len(QuickChecks)} \cup {"account_balance"}

NextCheck(kind, results) ==
  IF Len(results) < Len(Checks(kind)) THEN Checks(kind)[Len(results) + 1] ELSE "summary"

Stored(j, check_results) ==
  Append(run[j].results, [check_name |-> run[j].pc, check_results |-> check_results])

RECURSIVE RunsStarted(_)
RunsStarted(J) ==
  IF J = {} THEN 0
  ELSE LET j == CHOOSE q \in J : TRUE
       IN (IF run[j].pc = "off" THEN 0
           ELSE Len(run[j].history) + (IF run[j].pc = "idle" THEN 0 ELSE 1))
            + RunsStarted(J \ {j})

ScanOffsetShared(j) == run[CHOOSE q \in Jobs : run[q].pc # "off"].offset

ScanOffset(j) == run[j].offset

JobStart(j) ==
  /\ run[j].pc = "idle"
  /\ Len(run[j].history) < MaxRuns
  /\ RunsStarted(Jobs) < MaxStarts
  /\ run' = [run EXCEPT ![j].pc = Checks(run[j].kind)[1],
                        ![j].results = <<>>, ![j].partial = <<>>, ![j].offset = 0,
                        ![j].three_days_ago = now - ThreeDays, ![j].started = now,
                        ![j].exception = "none"]
  /\ UNCHANGED <<now, ledger, writes, acct, evt, agt, chk, rep, cost, ses>>

RunEventPage(j) ==
  /\ run[j].pc = "transaction_balance"
  /\ LET batch_events == OffsetLimit(OrderById(RecentEvents(events, run[j].three_days_ago)),
                                     ScanOffset(j), run[j].batch_size)
         batch == (ScanOffset(j) \div run[j].batch_size) + 1
     IN IF Len(batch_events) = 0
        THEN run' = [run EXCEPT ![j].results = Stored(j, run[j].partial),
                                ![j].partial = <<>>, ![j].offset = 0,
                                ![j].pc = NextCheck(run[j].kind, Stored(j, run[j].partial))]
        ELSE run' = [run EXCEPT
               ![j].partial = @ \o [i \in 1..Len(batch_events) |->
                                      EventResult(batch_events[i], txs, batch)],
               ![j].offset = @ + run[j].batch_size]
  /\ UNCHANGED <<now, ledger, writes, acct, evt, agt, chk, rep, cost, ses>>

RunAccountPage(j) ==
  /\ run[j].pc = "account_balance"
  /\ LET batch_accounts == OffsetLimit(OrderById(accounts), ScanOffset(j), run[j].batch_size)
         batch_max_updated_at == MaxUpdatedAt(batch_accounts)
         batch == (ScanOffset(j) \div run[j].batch_size) + 1
     IN IF Len(batch_accounts) = 0
        THEN run' = [run EXCEPT ![j].results = Stored(j, run[j].partial),
                                ![j].partial = <<>>, ![j].offset = 0,
                                ![j].pc = NextCheck(run[j].kind, Stored(j, run[j].partial))]
        ELSE IF batch_max_updated_at = Null
        THEN run' = [run EXCEPT ![j].offset = @ + run[j].batch_size]
        ELSE run' = [run EXCEPT
               ![j].partial = @ \o [i \in 1..Len(batch_accounts) |->
                                      AccountResult(batch_accounts[i], txs,
                                                    batch_max_updated_at, batch)],
               ![j].offset = @ + run[j].batch_size]
  /\ UNCHANGED <<now, ledger, writes, acct, evt, agt, chk, rep, cost, ses>>

SingleResult(check_name) ==
  IF check_name = "orphaned_transactions" THEN OrphanedTransactionsResult
  ELSE IF check_name = "orphaned_events" THEN OrphanedEventsResult
  ELSE IF check_name = "total_credit_balance" THEN TotalCreditBalanceResult
  ELSE TransactionTotalBalanceResult

RunSingleCheckDeletesOrphans(j) ==
  /\ run[j].pc \in {"orphaned_transactions", "orphaned_events", "total_credit_balance",
                    "transaction_total_balance"}
  /\ run' = [run EXCEPT ![j].results = Stored(j, <<SingleResult(run[j].pc)>>),
                        ![j].pc = NextCheck(run[j].kind, Stored(j, <<SingleResult(run[j].pc)>>))]
  /\ txs' = txs \ OrphanedTxRows
  /\ UNCHANGED <<now, accounts, events, agents, writes, acct, evt, agt, chk, rep, cost, ses>>

RunSingleCheck(j) ==
  /\ run[j].pc \in {"orphaned_transactions", "orphaned_events", "total_credit_balance",
                    "transaction_total_balance"}
  /\ run' = [run EXCEPT ![j].results = Stored(j, <<SingleResult(run[j].pc)>>),
                        ![j].pc = NextCheck(run[j].kind, Stored(j, <<SingleResult(run[j].pc)>>))]
  /\ UNCHANGED <<now, ledger, writes, acct, evt, agt, chk, rep, cost, ses>>

RunDbError(j) ==
  /\ run[j].pc \in CheckerPcs
  /\ run' = [run EXCEPT ![j].pc = "raised", ![j].exception = "db_error",
                        ![j].results = <<>>, ![j].partial = <<>>, ![j].offset = 0]
  /\ UNCHANGED <<now, ledger, writes, acct, evt, agt, chk, rep, cost, ses>>

CheckFailedCountAny(check_results) ==
  IF \E i \in 1..Len(check_results) : ~check_results[i].status THEN 1 ELSE 0

CheckFailedCount(check_results) ==
  Cardinality({i \in 1..Len(check_results) : ~check_results[i].status})

RECURSIVE FailedCount(_)
FailedCount(results) ==
  IF Len(results) = 0 THEN 0
  ELSE CheckFailedCount(Head(results).check_results) + FailedCount(Tail(results))

RECURSIVE TotalChecks(_)
TotalChecks(results) ==
  IF Len(results) = 0 THEN 0
  ELSE Len(Head(results).check_results) + TotalChecks(Tail(results))

Report(results) ==
  LET all_passed == \A i \in 1..Len(results) : CheckFailedCount(results[i].check_results) = 0
  IN [all_passed |-> all_passed,
      color |-> IF all_passed THEN "good" ELSE "danger",
      failed_count |-> FailedCount(results),
      total_checks |-> TotalChecks(results),
      fields |-> [i \in 1..Len(results) |->
                    [title |-> results[i].check_name,
                     failed |-> CheckFailedCount(results[i].check_results)]]]

RunSummary(j) ==
  /\ run[j].pc = "summary"
  /\ run' = [run EXCEPT ![j].report = Report(run[j].results), ![j].pc = "deliver"]
  /\ UNCHANGED <<now, ledger, writes, acct, evt, agt, chk, rep, cost, ses>>

RunDeliver(j, delivered) ==
  /\ run[j].pc = "deliver"
  /\ run' = IF delivered
            THEN [run EXCEPT ![j].pc = "returned"]
            ELSE [run EXCEPT ![j].pc = "raised", ![j].exception = "delivery_error",
                             ![j].results = <<>>]
  /\ UNCHANGED <<now, ledger, writes, acct, evt, agt, chk, rep, cost, ses>>

NoReport == [all_passed |-> FALSE, color |-> "", failed_count |-> 0, total_checks |-> 0,
             fields |-> <<>>]

CaughtNever(exception) == FALSE

Caught(exception) == exception \in {"db_error", "delivery_error"}

JobEnd(j) ==
  /\ run[j].pc \in {"returned", "raised"}
  /\ LET entry == [outcome |-> IF run[j].pc = "returned" THEN "completed"
                               ELSE "failed_with_exception",
                   exception |-> run[j].exception,
                   started |-> run[j].started,
                   results |-> run[j].results,
                   report |-> IF run[j].pc = "returned" THEN run[j].report ELSE NoReport,
                   returned |-> run[j].pc = "returned"]
     IN IF run[j].pc = "raised" /\ ~Caught(run[j].exception)
        THEN run' = [run EXCEPT ![j].pc = "propagated", ![j].report = NoReport]
        ELSE run' = [run EXCEPT ![j].pc = "idle", ![j].history = Append(@, entry),
                                ![j].results = <<>>, ![j].report = NoReport]
  /\ UNCHANGED <<now, ledger, writes, acct, evt, agt, chk, rep, cost, ses>>

(***************************************************************************)
(* Initial states of the scheduled jobs: one or two jobs, quick or slow,   *)
(* over a ledger that does not change, with balanced, unbalanced and       *)
(* nearly balanced events and accounts.                                    *)
(***************************************************************************)
RunTxShapes ==
  <<<<>>, <<<<"debit", 100000>>>>, <<<<"debit", 100000>>, <<"credit", 100000>>>>,
    <<<<"debit", 100000>>, <<"credit", 99950>>>>>>

RunLedgers == {<<3, 0>>, <<3, 50>>, <<4, 0>>, <<2, 100000>>, <<1, 100000>>}

JobKinds == {<<"quick", "off">>, <<"slow", "off">>, <<"quick", "quick">>,
             <<"quick", "slow">>, <<"slow", "slow">>}

Job(kind, p) ==
  [pc |-> "idle", kind |-> kind, batch_size |-> p, offset |-> 0, three_days_ago |-> Null,
   started |-> Null, results |-> <<>>, partial |-> <<>>, report |-> NoReport,
   exception |-> "none", history |-> <<>>]

InitRun ==
  /\ now = StartTime
  /\ \E l \in RunLedgers :
       /\ events = {EventRow(2, "message", 2, "free_credits", 0, 0, 0, 0, 0, StartTime),
                    EventRow(3, "message", 2, "free_credits", 0, 0, 0, 0, 0,
                             StartTime - ThreeDays)}
       /\ txs = EventTxRows(2, RunTxShapes[l[1]])
                  \cup EventTxRows(3, RunTxShapes[3])
                  \cup (IF l[2] = 100000 THEN {StrayTxRow} ELSE {})
       /\ accounts = {AccountRow(2, (CreditSum(txs) - DebitSum(txs)) + l[2], 0, 0, StartTime),
                      AccountRow(3, 0, -(CreditSum(txs) - DebitSum(txs)), 0, StartTime - 1)}
  /\ agents = {}
  /\ writes = 0
  /\ acct = Off
  /\ evt = Off
  /\ agt = Off
  /\ chk = Off
  /\ rep = Off
  /\ cost = Off
  /\ \E p \in 1..2, k \in JobKinds :
       run = [j \in Jobs |-> IF j = 1 THEN Job(k[1], p)
                             ELSE IF k[2] = "off" THEN Off ELSE Job(k[2], p)]
  /\ ses = Off

NextRun ==
  \/ \E j \in Jobs : JobStart(j)
  \/ \E j \in Jobs : RunEventPage(j)
  \/ \E j \in Jobs : RunAccountPage(j)
  \/ \E j \in Jobs : RunSingleCheck(j)
  \/ \E j \in Jobs : RunDbError(j)
  \/ \E j \in Jobs : RunSummary(j)
  \/ \E j \in Jobs, delivered \in BOOLEAN : RunDeliver(j, delivered)
  \/ \E j \in Jobs : JobEnd(j)
  \/ Tick

SpecRun == InitRun /\ [][NextRun]_vars

Init == InitAccounts \/ InitEvents \/ InitAgents

Next ==
  \/ AcctStart
  \/ AcctFetch
  \/ AcctCheckRow
  \/ EvtStart
  \/ EvtFetch
  \/ EvtCheckRow
  \/ AgtStart
  \/ AgtFetch
  \/ AgtUpdate
  \/ Tick
  \/ \E id \in NewIds : InsertAccount(id)
  \/ \E a \in accounts, cd \in {"credit", "debit"}, amt \in Amounts : LiveWrite(a, cd, amt)
  \/ \E id \in NewIds, amt \in Amounts : InsertEvent(id, amt)
  \/ \E id \in NewIds : InsertAgent(id)

Spec == Init /\ [][Next]_vars

(***************************************************************************)
(* The three scans as loops that run to their end: the scan takes its next *)
(* step whenever it has one, while rows are written a bounded number of    *)
(* times.  An account row may have no updated_at; such rows are scanned    *)
(* one per page, where max() over the page is defined.                     *)
(***************************************************************************)
ScanAccountRows ==
  {AccountRow(id, 0, 0, 0, u) : id \in RowIds, u \in {Null, StartTime - 1, StartTime}}

ScanStep ==
  \/ AcctStart
  \/ AcctFetch
  \/ AcctCheckRow
  \/ EvtStart
  \/ EvtFetch
  \/ EvtCheckRow
  \/ AgtStart
  \/ AgtFetch
  \/ AgtUpdate

InitScanAccounts ==
  /\ now = StartTime
  /\ accounts \in {S \in SUBSET ScanAccountRows : UniqueIds(S)}
  /\ txs = {}
  /\ events = {}
  /\ agents = {}
  /\ writes = 0
  /\ \E p \in 1..MaxPage :
       /\ p = 1 \/ \A a \in accounts : a.updated_at # Null
       /\ acct = [pc |-> "ready", batch_size |-> p, offset |-> 0, batch |-> <<>>, idx |-> 1,
                  max |-> Null, results |-> <<>>, w0 |-> 0, rows0 |-> {}, txs0 |-> {}]
  /\ evt = Off
  /\ agt = Off
  /\ chk = Off
  /\ rep = Off
  /\ cost = Off
  /\ run = Off
  /\ ses = Off

InitScanEvents ==
  /\ now = StartTime
  /\ accounts = {}
  /\ events \in {S \in SUBSET InitEventRows : UniqueIds(S)}
  /\ txs = {}
  /\ agents = {}
  /\ writes = 0
  /\ acct = Off
  /\ \E p \in 1..MaxPage : evt = [Scanner(p) EXCEPT !.pc = "ready"] @@ [three_days_ago |-> Null]
  /\ agt = Off
  /\ chk = Off
  /\ rep = Off
  /\ cost = Off
  /\ run = Off
  /\ ses = Off

InitScan == InitScanAccounts \/ InitScanEvents \/ InitAgents

SpecScan == InitScan /\ [][Next]_vars /\ WF_vars(ScanStep)

(***************************************************************************)
(* The database sessions of the two OFFSET scans.  Each iteration of the   *)
(* loop enters "async with get_session() as session", works on the page    *)
(* inside it and leaves it by falling off its end, by break, by continue   *)
(* or by an exception.  ses.open is the set of sessions the run holds, and *)
(* ses.log records which session served the query of which row.            *)
(***************************************************************************)
SesPage ==
  IF ses.kind = "account"
  THEN OffsetLimit(OrderById(accounts), ses.offset, ses.batch_size)
  ELSE OffsetLimit(OrderById(RecentEvents(events, ses.three_days_ago)),
                   ses.offset, ses.batch_size)

SesEnter ==
  /\ ses.pc = "loop"
  /\ ses' = [ses EXCEPT !.pc = "fetch", !.session = ses.next, !.next = @ + 1,
                        !.open = @ \cup {ses.next}]
  /\ UNCHANGED <<now, ledger, writes, acct, evt, agt, chk, rep, cost, run>>

LeaveBlock(s, after) == [s EXCEPT !.pc = "exit", !.after = after, !.batch = <<>>, !.idx = 1]

EndOfPageKeepsSession(s) ==
  [s EXCEPT !.pc = "loop", !.offset = @ + s.batch_size, !.batch = <<>>, !.idx = 1]

EndOfPage(s) == LeaveBlock(s, "advance")

SesFetch ==
  /\ ses.pc = "fetch"
  /\ LET batch == SesPage
     IN IF Len(batch) = 0
        THEN ses' = LeaveBlock(ses, "done")
        ELSE IF ses.kind = "account" /\ MaxUpdatedAt(batch) = Null
        THEN ses' = LeaveBlock([ses EXCEPT !.offset = @ + ses.batch_size], "loop")
        ELSE ses' = [ses EXCEPT !.pc = "row", !.batch = batch, !.idx = 1]
  /\ UNCHANGED <<now, ledger, writes, acct, evt, agt, chk, rep, cost, run>>

SesRow ==
  /\ ses.pc = "row"
  /\ LET queried == [ses EXCEPT !.log = Append(@, [session |-> ses.session,
                                                    offset |-> ses.offset,
                                                    id |-> ses.batch[ses.idx].id])]
     IN IF ses.idx = Len(ses.batch)
        THEN ses' = EndOfPage(queried)
        ELSE ses' = [queried EXCEPT !.idx = @ + 1]
  /\ UNCHANGED <<now, ledger, writes, acct, evt, agt, chk, rep, cost, run>>

SesRaise ==
  /\ ses.pc \in {"fetch", "row"}
  /\ ses' = LeaveBlock(ses, "raised")
  /\ UNCHANGED <<now, ledger, writes, acct, evt, agt, chk, rep, cost, run>>

SesExit ==
  /\ ses.pc = "exit"
  /\ ses' = [ses EXCEPT !.open = @ \ {ses.session},
                        !.pc = IF ses.after = "advance" THEN "loop" ELSE ses.after,
                        !.offset = IF ses.after = "advance" THEN @ + ses.batch_size ELSE @]
  /\ UNCHANGED <<now, ledger, writes, acct, evt, agt, chk, rep, cost, run>>

InitSession ==
  /\ now = StartTime
  /\ txs = {}
  /\ agents = {}
  /\ writes = 0
  /\ acct = Off
  /\ evt = Off
  /\ agt = Off
  /\ chk = Off
  /\ rep = Off
  /\ cost = Off
  /\ run = Off
  /\ \E kind \in {"account", "event"}, p \in 1..MaxPage :
       /\ accounts \in IF kind = "account"
                       THEN {S \in SUBSET ScanAccountRows :
                               /\ UniqueIds(S)
                               /\ p = 1 \/ \A a \in S : a.updated_at # Null}
                       ELSE {{}}
       /\ events \in IF kind = "event"
                     THEN {S \in SUBSET InitEventRows : UniqueIds(S)}
                     ELSE {{}}
       /\ ses = [pc |-> "loop", kind |-> kind, batch_size |-> p, offset |-> 0,
                 three_days_ago |-> now - ThreeDays, batch |-> <<>>, idx |-> 1,
                 session |-> Null, next |-> 1, open |-> {}, after |-> "", log |-> <<>>]

NextSession ==
  \/ SesEnter
  \/ SesFetch
  \/ SesRow
  \/ SesRaise
  \/ SesExit

SpecSession == InitSession /\ [][NextSession]_vars

(***************************************************************************)
(* Initial states of the single-query checks on ledgers with many orphans: *)
(* none, one, or about DetailCap events without transaction or             *)
(* transactions without event.                                             *)
(***************************************************************************)
MaxOrphans == 102

OrphanCounts == {0, 1} \cup ((DetailCap - 1)..MaxOrphans)

OrphanEventRows(n) ==
  {EventRow(1000 + i, "message", 2, "free_credits", 0, 0, 0, 0, 0, StartTime) : i \in 1..n}

OrphanTxRows(n) ==
  {TxRow(2000 + i, 2, 3000 + i, "pay", "debit", "free_credits", 100000, StartTime) : i \in 1..n}

InitOrphans ==
  /\ now = StartTime
  /\ accounts = {}
  /\ \E many \in OrphanCounts, few \in {0, 1, 2}, side \in {"events", "txs"}, paired \in BOOLEAN :
       /\ events = OrphanEventRows(IF side = "events" THEN many ELSE few)
                     \cup (IF paired
                           THEN {EventRow(2, "message", 2, "free_credits", 0, 0, 0, 0, 0, StartTime)}
                           ELSE {})
       /\ txs = OrphanTxRows(IF side = "txs" THEN many ELSE few)
                  \cup (IF paired THEN EventTxRows(2, RunTxShapes[3]) ELSE {})
  /\ agents = {}
  /\ writes = 0
  /\ acct = Off
  /\ evt = Off
  /\ agt = Off
  /\ chk = [pc |-> "orphaned_transactions", orphaned_transactions |-> NoResult,
            orphaned_events |-> NoResult, total_credit_balance |-> NoResult,
            transaction_total_balance |-> NoResult]
  /\ rep = Off
  /\ cost = Off
  /\ run = Off
  /\ ses = Off

NextOrphans ==
  \/ CheckOrphanedTransactions
  \/ CheckOrphanedEvents

SpecOrphans == InitOrphans /\ [][NextOrphans]_vars

(***************************************************************************)
(* Properties of the paged scans and of the two per-row checkers.          *)
(***************************************************************************)
ResultIds(p) == SeqIds(p.results)

VisitedOnce(p, ids) == \A id \in ids : Occurrences(ResultIds(p), id) = 1

Static(p) == p.pc = "done" /\ writes = p.w0

\* C1: on a table that does not change during the scan, each of the three
\* paged scans (accounts, recent events, agents) has visited every row
\* exactly once and nothing else when it ends, for every page size.
C1_ScanComplete ==
  /\ Static(acct) =>
       /\ VisitedOnce(acct, {a.id : a \in accounts})
       /\ Len(acct.results) = Cardinality(accounts)
  /\ Static(evt) =>
       /\ VisitedOnce(evt, {e.id : e \in RecentEvents(events, evt.three_days_ago)})
       /\ Len(evt.results) = Cardinality(RecentEvents(events, evt.three_days_ago))
  /\ Static(agt) =>
       /\ VisitedOnce(agt, agents)
       /\ Len(agt.results) = Cardinality(agents)

C1_Witness ==
  /\ Static(acct)
  /\ Cardinality(accounts) = 2
  /\ acct.batch_size = 1
  /\ Len(acct.results) = 2

\* C2: when rows are inserted between two page fetches, every row that
\* existed when the account scan or the event scan started is still
\* visited exactly once.
C2_StableUnderInserts ==
  /\ acct.pc = "done" => VisitedOnce(acct, acct.rows0)
  /\ evt.pc = "done" => VisitedOnce(evt, evt.rows0)

C4_NoSpuriousFailure ==
  [][(acct.pc = "row" /\ Len(acct'.results) = Len(acct.results) + 1) =>
       LET account == acct.batch[acct.idx]
           result == acct'.results[Len(acct'.results)]
       IN (TotalBalance(account) = ExpectedBalance(acct.txs0, account.id, acct.max))
            => result.status]_vars

SideTotal(event_id, side) ==
  SumChange({t \in txs : t.event_id = event_id /\ t.credit_debit = side})

Balanced(event_id) == SideTotal(event_id, "credit") = SideTotal(event_id, "debit")

\* C5, the part that holds: when the event balance checker ends, every event
\* created within the three days before the run started has a result (exactly one when the
\* events table did not change during the run), and every result passes
\* exactly when the credit sum of the event's transactions equals their
\* debit sum; an event with a single non-zero transaction is a finding.
C5_EventBalance ==
  evt.pc = "done" =>
    /\ \A id \in evt.rows0 : Occurrences(ResultIds(evt), id) >= 1
    /\ writes = evt.w0 => VisitedOnce(evt, evt.rows0)
    /\ \A i \in 1..Len(evt.results) : evt.results[i].status = Balanced(evt.results[i].id)
    /\ \A i \in 1..Len(evt.results) :
         (\E t \in txs : EventTxs(txs, evt.results[i].id) = {t} /\ t.change_amount # 0)
           => ~evt.results[i].status

C5_Witness ==
  /\ evt.pc = "done"
  /\ writes = evt.w0
  /\ \E i, j \in 1..Len(evt.results) :
       /\ evt.results[i].status
       /\ Cardinality(EventTxs(txs, evt.results[i].id)) = 2
       /\ ~evt.results[j].status
       /\ Cardinality(EventTxs(txs, evt.results[j].id)) = 1

Ran(result) == result.check_type # ""

TxsWithoutEvent == {t \in txs : \A e \in events : e.id # t.event_id}

EventsWithoutTx == {e \in events : \A t \in txs : t.event_id # e.id}

\* C6: check_orphaned_transactions passes exactly when every transaction
\* has a matching event and otherwise counts the transactions without one
\* (a single orphan is reported as one entry with its row); and
\* check_orphaned_events passes exactly when every event has a transaction
\* and otherwise counts the events without any.
C6_OrphansExact ==
  /\ Ran(chk.orphaned_transactions) =>
       LET r == chk.orphaned_transactions
       IN /\ r.status = (TxsWithoutEvent = {})
          /\ r.orphaned_count = Cardinality(TxsWithoutEvent)
          /\ \A t \in TxsWithoutEvent : Cardinality(TxsWithoutEvent) = 1 => r.details = <<t>>
  /\ Ran(chk.orphaned_events) =>
       LET r == chk.orphaned_events
       IN /\ r.status = (EventsWithoutTx = {})
          /\ ~r.status => r.orphaned_count = Cardinality(EventsWithoutTx)

C6_Witness ==
  /\ chk.pc = "done"
  /\ Cardinality(TxsWithoutEvent) = 1
  /\ chk.orphaned_transactions.orphaned_count = 1
  /\ Cardinality(EventsWithoutTx) = 1
  /\ chk.orphaned_events.orphaned_count = 1
  /\ \E t \in txs : t \notin TxsWithoutEvent

RECURSIVE LedgerTotal(_)
LedgerTotal(A) ==
  IF A = {} THEN 0
  ELSE LET a == CHOOSE r \in A : TRUE
       IN a.free_credits + a.reward_credits + a.credits + LedgerTotal(A \ {a})

RECURSIVE SignedTotal(_)
SignedTotal(T) ==
  IF T = {} THEN 0
  ELSE LET t == CHOOSE r \in T : TRUE
       IN (IF t.credit_debit = "credit" THEN t.change_amount ELSE -t.change_amount)
            + SignedTotal(T \ {t})

TolerancePolicy(result, value) ==
  /\ value = 0 => result.status /\ ~result.warning
  /\ (value # 0 /\ value < 100 /\ value > -100) => result.status /\ result.warning
  /\ (value >= 100 \/ value <= -100) => ~result.status /\ ~result.warning

\* C7: each global check passes when its total is exactly zero (an empty
\* table included), passes with a warning when the total is non-zero with
\* magnitude below 0.001, and fails when the magnitude is 0.001 or more.
C7_GlobalTolerance ==
  /\ Ran(chk.total_credit_balance) =>
       TolerancePolicy(chk.total_credit_balance, LedgerTotal(accounts))
  /\ Ran(chk.transaction_total_balance) =>
       TolerancePolicy(chk.transaction_total_balance, SignedTotal(txs))

C7_Witness ==
  /\ chk.pc = "done"
  /\ Cardinality(accounts) = 3
  /\ LedgerTotal(accounts) = 50
  /\ chk.total_credit_balance.status
  /\ chk.total_credit_balance.warning
  /\ SignedTotal(txs) = 100
  /\ ~chk.transaction_total_balance.status

(***************************************************************************)
(* Properties of the precision repair script.                              *)
(***************************************************************************)
RowOf(S, id) == CHOOSE r \in S : r.id = id

Fees(e) ==
  (IF e.fee_platform_amount = Null THEN 0 ELSE e.fee_platform_amount)
    + (IF e.fee_agent_amount = Null THEN 0 ELSE e.fee_agent_amount)

RoundHalfUp4(x) ==
  IF x >= 0 THEN ((x + 5) \div 10) * 10 ELSE -(((-x + 5) \div 10) * 10)

RightTotal(e) == RoundHalfUp4(e.base_amount + Fees(e))

Diff(e) == RightTotal(e) - e.total_amount

FirstRunOver == Len(rep.history) = 1 /\ rep.pc \in {"done", "failed"}

FirstRunCommitted == FirstRunOver /\ rep.history[1].outcome = "done"

Before == rep.before

After == rep.history[1].ledger

RECURSIVE SumDiff(_)
SumDiff(E) ==
  IF E = {} THEN 0
  ELSE LET e == CHOOSE r \in E : TRUE
       IN Diff(e) + SumDiff(E \ {e})

Repaired(E, account_id, credit_type) ==
  {e \in E : /\ e.event_type = "message"
             /\ e.total_amount # RightTotal(e)
             /\ e.account_id = account_id
             /\ e.credit_type = credit_type}

EventRepaired(e, L) ==
  /\ RowOf(L.events, e.id).total_amount = RightTotal(e)
  /\ e.balance_after # Null =>
       RowOf(L.events, e.id).balance_after = RoundHalfUp4(e.balance_after - Diff(e))
  /\ \A t \in Before.txs :
       (t.event_id = e.id /\ t.tx_type = "pay") =>
         RowOf(L.txs, t.id).change_amount = RightTotal(e)

\* C8 as stated: after one committed repair run, every charge event
\* (message or skill call) whose stored total was wrong has the right total,
\* balance_after lowered by the difference and its PAY transaction set to
\* the right total, and its account has the matching bucket lowered by the
\* difference and the other two buckets unchanged.
C8_EveryChargeEventRepaired ==
  FirstRunCommitted =>
    \A e \in Before.events :
      (e.event_type \in {"message", "skill_call"} /\ e.total_amount # RightTotal(e)) =>
        /\ EventRepaired(e, After)
        /\ \A a \in Before.accounts :
             a.id = e.account_id =>
               \A b \in CreditTypes :
                 RowOf(After.accounts, a.id)[b] =
                   IF b = e.credit_type THEN RoundHalfUp4(a[b] - Diff(e)) ELSE a[b]

\* C8 as amended: a run that raises commits nothing; a run that commits
\* repairs every message event whose stored total was wrong (right total, a
\* non-null balance_after lowered by the difference, the PAY transaction,
\* when there is one, set to the right total), and every bucket of every
\* account is lowered by the sum of the differences of the repaired message
\* events of that account and credit type, so an account with one repaired
\* event has the matching bucket lowered by the difference and the other
\* two unchanged.
C8_MessageEventsRepaired ==
  FirstRunOver =>
    IF rep.history[1].outcome = "failed"
    THEN After = Before
    ELSE /\ \A e \in Before.events :
              (e.event_type = "message" /\ e.total_amount # RightTotal(e)) =>
                EventRepaired(e, After)
         /\ \A a \in Before.accounts, b \in CreditTypes :
              RowOf(After.accounts, a.id)[b] = a[b] - SumDiff(Repaired(Before.events, a.id, b))

C8_Witness ==
  /\ FirstRunCommitted
  /\ \E e \in Before.events :
       /\ e.event_type = "message"
       /\ Diff(e) = 10
       /\ e.balance_after # Null
       /\ e.account_id = 1
       /\ e.credit_type = "reward_credits"
       /\ \E t \in Before.txs : t.event_id = e.id /\ t.tx_type = "pay"
       /\ RowOf(After.accounts, 1).reward_credits = RowOf(Before.accounts, 1).reward_credits - 10
       /\ RowOf(After.events, e.id).total_amount = 100020

\* C9: the second of two repair runs in succession makes no correction and
\* leaves the ledger as the first run left it.
C9_Idempotent ==
  Len(rep.history) = 2 =>
    /\ rep.history[2].fixed_count = 0
    /\ rep.history[2].ledger = rep.history[1].ledger

C9_Witness ==
  /\ Len(rep.history) = 2
  /\ rep.history[1].outcome = "done"
  /\ rep.history[1].fixed_count = 2
  /\ rep.history[2].outcome = "done"

\* C10: every commit of the repair script is the repair of one event: a
\* step that changes committed event rows changes the row of one event
\* only, together with that event's PAY transaction and account.
C10_OneEventPerCommit ==
  [][\A e1, e2 \in events : (e1 \notin events' /\ e2 \notin events') => e1 = e2]_vars

\* C11: when the repair of one event fails, only that event is left as it
\* was: every other message event whose stored total was wrong and whose
\* repair does not fail is repaired when the run is over.
C11_FailureIsolated ==
  (FirstRunOver /\ rep.history[1].outcome = "failed") =>
    \A e \in Before.events :
      (/\ e.event_type = "message"
       /\ e.total_amount # RightTotal(e)
       /\ Cardinality({t \in Before.txs : t.event_id = e.id /\ t.tx_type = "pay"}) <= 1) =>
        EventRepaired(e, After)

Closed(L) == LedgerTotal(L.accounts) = 0 /\ SignedTotal(L.txs) = 0

\* C12: a committed repair run started on a closed ledger (account balances
\* summing to zero, credit transactions equal to debit transactions) ends
\* on a closed ledger.
C12_ClosurePreserved ==
  (FirstRunCommitted /\ Closed(Before)) => Closed(After)

\* C20 as stated: after a committed repair run every charge event (message
\* or skill call) has total_amount = quantize(base + platform fee + agent
\* fee).
C20_EveryChargeEventRight ==
  FirstRunCommitted =>
    \A e \in After.events :
      e.event_type \in {"message", "skill_call"} => e.total_amount = RightTotal(e)

\* C20 as amended: after a committed repair run every message event has
\* total_amount = quantize(base + platform fee + agent fee), whatever the
\* stored totals were before; events of other types are as they were.
C20_MessageEventsRight ==
  FirstRunCommitted =>
    \A e \in After.events :
      IF e.event_type = "message"
      THEN e.total_amount = RightTotal(e)
      ELSE e \in Before.events

C20_Witness ==
  /\ FirstRunCommitted
  /\ \E e \in Before.events :
       /\ e.event_type = "message"
       /\ e.total_amount = 100030
       /\ RowOf(After.events, e.id).total_amount = 100020
  /\ \E e \in After.events : e.event_type = "skill_call" /\ e.total_amount # RightTotal(e)

(***************************************************************************)
(* Properties of agent_action_cost.  The actions of agent 1 are restated   *)
(* here from the events table, without the operators of the model.         *)
(***************************************************************************)
Matching ==
  {e \in events : /\ e.agent_id = 1
                  /\ e.created_at >= now - ThreeDays
                  /\ e.upstream_type = "executor"
                  /\ (e.event_type = "message" \/ e.event_type = "skill_call")
                  /\ e.start_message_id # Null}

ActionIds == {e.start_message_id : e \in Matching}

RECURSIVE TotalAmount(_)
TotalAmount(E) ==
  IF E = {} THEN 0
  ELSE LET e == CHOOSE r \in E : TRUE
       IN e.total_amount + TotalAmount(E \ {e})

ActionCost(m) == TotalAmount({e \in Matching : e.start_message_id = m})

RankedCost(r) ==
  LET m == CHOOSE a \in ActionIds :
             /\ Cardinality({b \in ActionIds : ActionCost(b) < ActionCost(a)}) < r
             /\ r <= Cardinality({b \in ActionIds : ActionCost(b) <= ActionCost(a)})
  IN ActionCost(m)

RECURSIVE SumRanks(_)
SumRanks(I) ==
  IF I = {} THEN 0
  ELSE LET r == CHOOSE j \in I : TRUE
       IN RankedCost(r) + SumRanks(I \ {r})

NearestEven4(num, den) ==
  LET lo == (num \div (den * 10)) * 10
      hi == lo + 10
      below == num - (lo * den)
      above == (hi * den) - num
  IN IF below < above THEN lo
     ELSE IF above < below THEN hi
     ELSE IF (lo \div 10) % 2 = 0 THEN lo ELSE hi

MeanOfRanks(I) == NearestEven4(SumRanks(I), Cardinality(I))

AllDefault(result) ==
  /\ result.avg_action_cost = 100000
  /\ result.min_action_cost = 100000
  /\ result.max_action_cost = 100000
  /\ result.low_action_cost = 100000
  /\ result.medium_action_cost = 100000
  /\ result.high_action_cost = 100000

\* C13: the number of distinct start_message_id values of the events that
\* match the filter decides the outcome of agent_action_cost: with 9 or
\* fewer all six metrics are 1.0; with 10 or more the average, minimum and
\* maximum are those of the per-action sums of total_amount.
C13_Threshold ==
  cost.pc = "done" =>
    LET n == Cardinality(ActionIds)
    IN IF n <= 9
       THEN AllDefault(cost.result)
       ELSE /\ cost.result.avg_action_cost = MeanOfRanks(1..n)
            /\ cost.result.min_action_cost = RankedCost(1)
            /\ cost.result.max_action_cost = RankedCost(n)

C13_Witness ==
  /\ cost.pc = "done"
  /\ Cardinality(ActionIds) = 10
  /\ Cardinality(events) > 11
  /\ cost.result.avg_action_cost = 200000
  /\ cost.result.max_action_cost = 400000

CeilQuintile(n, r) == CHOOSE k \in 1..5 : (k - 1) * n < r * 5 /\ r * 5 <= k * n

\* C14 as stated: for 10 or more actions, low, medium and high are the
\* average action cost of quintile 1, of quintiles 2 to 4 and of quintile 5,
\* where the action of ascending cost rank r among n belongs to quintile
\* ceil(r * 5 / n).
C14_QuintilesByCeil ==
  (cost.pc = "done" /\ Cardinality(ActionIds) >= 10) =>
    LET n == Cardinality(ActionIds)
    IN /\ cost.result.low_action_cost = MeanOfRanks({r \in 1..n : CeilQuintile(n, r) = 1})
       /\ cost.result.medium_action_cost =
            MeanOfRanks({r \in 1..n : CeilQuintile(n, r) \in {2, 3, 4}})
       /\ cost.result.high_action_cost = MeanOfRanks({r \in 1..n : CeilQuintile(n, r) = 5})

NtileQuintile(n, r) ==
  LET q == n \div 5
      m == n % 5
  IN IF r <= m * (q + 1)
     THEN ((r - 1) \div (q + 1)) + 1
     ELSE m + ((r - (m * (q + 1)) - 1) \div q) + 1

\* C14 as amended: for 10 or more actions, low, medium and high are the
\* average action cost (quantized to 4 places) of quintile 1, of quintiles
\* 2 to 4 and of quintile 5 of NTILE(5): in ascending cost order the first
\* n mod 5 quintiles hold floor(n / 5) + 1 actions each and the others
\* floor(n / 5).
C14_QuintilesByNtile ==
  (cost.pc = "done" /\ Cardinality(ActionIds) >= 10) =>
    LET n == Cardinality(ActionIds)
    IN /\ cost.result.low_action_cost = MeanOfRanks({r \in 1..n : NtileQuintile(n, r) = 1})
       /\ cost.result.medium_action_cost =
            MeanOfRanks({r \in 1..n : NtileQuintile(n, r) \in {2, 3, 4}})
       /\ cost.result.high_action_cost = MeanOfRanks({r \in 1..n : NtileQuintile(n, r) = 5})

C14_Witness ==
  /\ cost.pc = "done"
  /\ Cardinality(ActionIds) = 12
  /\ \A i \in 1..12 : RankedCost(i) = BaseCosts[i] * 100000
  /\ cost.result.low_action_cost = 100000
  /\ cost.result.medium_action_cost = 242860
  /\ cost.result.high_action_cost = 750000

(***************************************************************************)
(* Properties of the check runs and of the scheduled jobs.  The verdicts   *)
(* a run must reach are restated from the ledger and the start time.       *)
(***************************************************************************)
Entries == {<<j, i>> \in Jobs \X (1..MaxStarts) : run[j].pc # "off" /\ i <= Len(run[j].history)}

Entry(x) == run[x[1]].history[x[2]]

KindOf(x) == run[x[1]].kind

ResultsOf(results, check_name) ==
  results[CHOOSE k \in 1..Len(results) : results[k].check_name = check_name].check_results

Names(results) == [k \in 1..Len(results) |-> results[k].check_name]

RECURSIVE Failures(_)
Failures(check_results) ==
  IF Len(check_results) = 0 THEN 0
  ELSE (IF Head(check_results).status THEN 0 ELSE 1) + Failures(Tail(check_results))

RECURSIVE AllFailures(_)
AllFailures(results) ==
  IF Len(results) = 0 THEN 0
  ELSE Failures(Head(results).check_results) + AllFailures(Tail(results))

ReportMatches(kind, results, report) ==
  /\ Names(results) = (IF kind = "quick"
                       THEN <<"transaction_balance", "orphaned_transactions", "orphaned_events",
                              "total_credit_balance", "transaction_total_balance">>
                       ELSE <<"account_balance">>)
  /\ report.all_passed =
       (\A k \in 1..Len(results) :
          \A i \in 1..Len(results[k].check_results) : results[k].check_results[i].status)
  /\ report.failed_count = AllFailures(results)
  /\ Len(report.fields) = Len(results)
  /\ \A k \in 1..Len(results) :
       /\ report.fields[k].title = results[k].check_name
       /\ report.fields[k].failed = Failures(results[k].check_results)

\* C15: a quick run executes the five quick checks and a slow run the
\* per-account check, whatever the earlier checks found; its report is a
\* success exactly when every result of every check passed, and the failure
\* counts it reports, overall and per check, are the numbers of results
\* that did not pass.
C15_ReportCounts ==
  /\ \A j \in Jobs :
       run[j].pc \in {"deliver", "returned"} =>
         ReportMatches(run[j].kind, run[j].results, run[j].report)
  /\ \A x \in Entries :
       Entry(x).returned => ReportMatches(KindOf(x), Entry(x).results, Entry(x).report)

C15_Witness ==
  \E x \in Entries :
    /\ Entry(x).returned
    /\ KindOf(x) = "quick"
    /\ ~Entry(x).report.all_passed
    /\ Entry(x).report.fields[1].failed = 1
    /\ Entry(x).report.fields[2].failed = 1
    /\ Entry(x).report.fields[3].failed = 0
    /\ Entry(x).report.failed_count = 4
    /\ Entry(x).report.total_checks = 6

ResultPairs(check_results) ==
  {<<check_results[i].id, check_results[i].status>> : i \in 1..Len(check_results)}

ExpectedEventPairs(started) ==
  {<<e.id, Balanced(e.id)>> : e \in {r \in events : r.created_at >= started - 3}}

ExpectedAccountPairs ==
  {<<a.id, a.free_credits + a.reward_credits + a.credits
             = SignedTotal({t \in txs : t.account_id = a.id /\ t.created_at <= a.updated_at})>> :
     a \in accounts}

ExpectedResults(kind, started, results) ==
  IF kind = "quick"
  THEN /\ Len(results) = 5
       /\ ResultPairs(ResultsOf(results, "transaction_balance")) = ExpectedEventPairs(started)
       /\ Len(ResultsOf(results, "transaction_balance"))
            = Cardinality(ExpectedEventPairs(started))
       /\ ResultsOf(results, "orphaned_transactions")[1].status = (TxsWithoutEvent = {})
       /\ ResultsOf(results, "orphaned_events")[1].status = (EventsWithoutTx = {})
       /\ ResultsOf(results, "total_credit_balance")[1].status
            = (LedgerTotal(accounts) < 100 /\ LedgerTotal(accounts) > -100)
       /\ ResultsOf(results, "transaction_total_balance")[1].status
            = (SignedTotal(txs) < 100 /\ SignedTotal(txs) > -100)
  ELSE /\ Len(results) = 1
       /\ ResultPairs(ResultsOf(results, "account_balance")) = ExpectedAccountPairs
       /\ Len(ResultsOf(results, "account_balance")) = Cardinality(accounts)

\* C16: when sending the alert raises an error, the run still completes
\* and returns the check results it would have returned had the delivery
\* succeeded.
C16_DeliveryFailureHarmless ==
  \A x \in Entries :
    Entry(x).exception = "delivery_error" =>
      /\ Entry(x).returned
      /\ ExpectedResults(KindOf(x), Entry(x).started, Entry(x).results)

\* C17: a database error raised inside a checker is caught by the scheduled
\* job: it never reaches the scheduler, the run ends failed-with-exception
\* (never as a completed run, with or without findings), and the job is
\* never left in a state from which its next scheduled run cannot start.
C17_DbErrorContained ==
  /\ \A j \in Jobs :
       run[j].pc \in {"off", "idle", "summary", "deliver", "returned", "raised",
                      "transaction_balance", "orphaned_transactions", "orphaned_events",
                      "total_credit_balance", "transaction_total_balance", "account_balance"}
  /\ \A x \in Entries :
       /\ Entry(x).exception = "db_error" =>
            Entry(x).outcome = "failed_with_exception" /\ ~Entry(x).returned
       /\ Entry(x).returned => Entry(x).outcome = "completed" /\ Entry(x).exception = "none"

C17_Witness ==
  \E j \in Jobs :
    /\ run[j].pc # "off"
    /\ Len(run[j].history) = 2
    /\ run[j].history[1].exception = "db_error"
    /\ run[j].history[1].outcome = "failed_with_exception"
    /\ run[j].history[2].outcome = "completed"
    /\ ~run[j].history[2].report.all_passed

Within(x, tolerance) == x < tolerance /\ x > -tolerance

\* C19: in the per-event and the per-account balance checks too, a result
\* passes exactly when the magnitude of the mismatch is below 0.001.
C19_ToleranceEverywhere ==
  \A x \in Entries :
    Entry(x).returned =>
      IF KindOf(x) = "quick"
      THEN \A e \in events :
             \A i \in 1..Len(ResultsOf(Entry(x).results, "transaction_balance")) :
               LET r == ResultsOf(Entry(x).results, "transaction_balance")[i]
               IN r.id = e.id =>
                    r.status = Within(SideTotal(e.id, "credit") - SideTotal(e.id, "debit"), 100)
      ELSE \A a \in accounts :
             \A i \in 1..Len(ResultsOf(Entry(x).results, "account_balance")) :
               LET r == ResultsOf(Entry(x).results, "account_balance")[i]
               IN r.id = a.id =>
                    r.status = Within((a.free_credits + a.reward_credits + a.credits)
                                        - SignedTotal({t \in txs : t.account_id = a.id}), 100)

(***************************************************************************)
(* Further properties of the account balance checker.                      *)
(***************************************************************************)
LatestUpdate(batch) ==
  CHOOSE u \in {batch[i].updated_at : i \in 1..Len(batch)} :
    \A i \in 1..Len(batch) : batch[i].updated_at <= u

\* C21: every account of one batch is checked against the same bound, the
\* greatest updated_at of the accounts of the batch: its result passes
\* exactly when free_credits + reward_credits + credits equals the credits
\* minus the debits of its transactions created at or before that bound; an
\* account without transactions passes exactly when its balance is 0.
C21_BatchWindow ==
  [][(acct.pc = "row" /\ Len(acct'.results) = Len(acct.results) + 1) =>
       LET account == acct.batch[acct.idx]
           bound == LatestUpdate(acct.batch)
           result == acct'.results[Len(acct'.results)]
           own == {t \in txs : t.account_id = account.id /\ t.created_at <= bound}
       IN /\ result.id = account.id
          /\ result.max_updated_at = bound
          /\ result.status =
               (account.free_credits + account.reward_credits + account.credits
                  = SignedTotal(own))
          /\ (\A t \in txs : t.account_id # account.id) =>
               result.status =
                 (account.free_credits + account.reward_credits + account.credits = 0)]_vars

C21_Witness ==
  /\ acct.pc = "done"
  /\ acct.batch_size = 2
  /\ writes = 0
  /\ \E a, b \in accounts :
       /\ a.id = 2 /\ a.updated_at = StartTime - 1 /\ TotalBalance(a) = 100000
       /\ b.id = 3 /\ b.updated_at = StartTime /\ TotalBalance(b) = 0
       /\ \E t \in txs : t.account_id = 2 /\ t.created_at = StartTime /\ t.credit_debit = "credit"
  /\ Len(acct.results) = 2
  /\ acct.results[1].max_updated_at = StartTime
  /\ acct.results[1].status
  /\ acct.results[2].max_updated_at = StartTime
  /\ acct.results[2].status

(***************************************************************************)
(* Termination of the paged scans.                                         *)
(***************************************************************************)
RowsPast(ids, offset) == {i \in ids : Cardinality({k \in ids : k < i}) >= offset}

Scanning(p) == p.pc \in {"fetch", "row"}

IterationEnds(p, q) == Scanning(p) /\ q.pc = "fetch" /\ q # p

\* C22: every paged scan terminates when rows are written only finitely
\* often: each iteration of a scan ends with a strictly greater position
\* (offset, or last_id for the agents), also when the account scan skips a
\* batch without batch_max_updated_at; a scan stops exactly at the first
\* page that returns no rows; and every scan that runs reaches its end.
C22_Terminates ==
  /\ [][/\ IterationEnds(acct, acct') => acct'.offset > acct.offset
        /\ IterationEnds(evt, evt') => evt'.offset > evt.offset
        /\ (agt.pc = "fetch" /\ agt'.pc = "row") => agt'.last_id > agt.last_id
        /\ (acct.pc = "fetch" /\ acct' # acct) =>
             ((acct'.pc = "done") = (RowsPast({a.id : a \in accounts}, acct.offset) = {}))
        /\ (evt.pc = "fetch" /\ evt' # evt) =>
             ((evt'.pc = "done")
                = (RowsPast({e.id : e \in {r \in events : r.created_at >= evt.three_days_ago}},
                            evt.offset) = {}))
        /\ (agt.pc = "fetch" /\ agt' # agt) =>
             ((agt'.pc = "done") = ({i \in agents : i > agt.last_id} = {}))
        /\ (acct.pc = "row" => acct'.pc # "done")
        /\ (evt.pc = "row" => evt'.pc # "done")
        /\ (agt.pc = "row" => agt'.pc # "done")]_vars
  /\ <>[](/\ acct.pc \in {"off", "done"}
          /\ evt.pc \in {"off", "done"}
          /\ agt.pc \in {"off", "done"})

C22_Witness ==
  /\ acct.pc = "done"
  /\ writes > acct.w0
  /\ Cardinality(accounts) = 3
  /\ acct.offset = 3
  /\ Len(acct.results) = 2
  /\ \E a \in accounts : a.updated_at = Null /\ \A i \in 1..Len(acct.results) :
                                                  acct.results[i].id # a.id

(***************************************************************************)
(* Sessions of the OFFSET scans.                                           *)
(***************************************************************************)
\* C23: a run of the account scan or of the event scan holds at most one
\* session at any time; it holds none between two pages and none after it
\* has ended, normally or by an exception; every page is fetched in a
\* session that has served no earlier page, and the rows of one page are
\* all queried in the session that fetched the page.
C23_OneSessionPerPage ==
  /\ Cardinality(ses.open) <= 1
  /\ ses.pc \in {"loop", "done", "raised"} => ses.open = {}
  /\ ses.pc \in {"fetch", "row", "exit"} => ses.open = {ses.session}
  /\ ses.pc = "fetch" => \A i \in 1..Len(ses.log) : ses.log[i].session # ses.session
  /\ ses.pc = "row" => \A i \in 1..Len(ses.log) :
                         (ses.log[i].session = ses.session) = (ses.log[i].offset = ses.offset)
  /\ \A i, j \in 1..Len(ses.log) :
       (ses.log[i].session = ses.log[j].session) = (ses.log[i].offset = ses.log[j].offset)

C23_Witness ==
  /\ ses.pc = "done"
  /\ ses.kind = "account"
  /\ ses.open = {}
  /\ ses.next = 4
  /\ Len(ses.log) = 1
  /\ ses.log[1].session = 2
  /\ Cardinality(accounts) = 2

(***************************************************************************)
(* Size of the diagnostic detail of the referential integrity checks.      *)
(***************************************************************************)
\* C24: the detail list returned by check_orphaned_transactions and by
\* check_orphaned_events never holds more than 100 entries, while the
\* orphaned_count reported is the number of orphans found.
C24_DetailCapped ==
  /\ Ran(chk.orphaned_transactions) =>
       /\ Len(chk.orphaned_transactions.details) <= 100
       /\ chk.orphaned_transactions.orphaned_count = Cardinality(TxsWithoutEvent)
  /\ Ran(chk.orphaned_events) =>
       /\ Len(chk.orphaned_events.details) <= 100
       /\ ~chk.orphaned_events.status =>
            chk.orphaned_events.orphaned_count = Cardinality(EventsWithoutTx)

\* C24, the part that holds: the detail list of check_orphaned_transactions
\* holds at most 100 entries and orphaned_count is the number of
\* transactions without event.
C24_TransactionDetailCapped ==
  Ran(chk.orphaned_transactions) =>
    /\ Len(chk.orphaned_transactions.details) <= 100
    /\ chk.orphaned_transactions.orphaned_count = Cardinality(TxsWithoutEvent)

C24_Witness ==
  /\ chk.pc = "total_credit_balance"
  /\ Cardinality(TxsWithoutEvent) = 101
  /\ chk.orphaned_transactions.orphaned_count = 101
  /\ Len(chk.orphaned_transactions.details) = 100

(***************************************************************************)
(* Effect of the check runs on the ledger.                                 *)
(***************************************************************************)
\* C25: no step of a quick or slow check run changes an account, an event
\* or a transaction, whatever the run finds and wherever it fails: the
\* three tables are after every step of every run what they were before it.
C25_ReadOnly ==
  [][/\ accounts' = accounts
     /\ events' = events
     /\ txs' = txs]_vars

C25_Witness ==
  /\ \E x \in Entries :
       /\ Entry(x).returned
       /\ KindOf(x) = "quick"
       /\ Entry(x).report.failed_count >= 3
  /\ \E y \in Entries : Entry(y).exception = "db_error"
  /\ \E j \in Jobs : run[j].pc = "raised" /\ run[j].exception = "db_error"
  /\ TxsWithoutEvent # {}

(***************************************************************************)
(* The repair script next to live traffic.                                 *)
(***************************************************************************)
Drift(L, account_id) ==
  LET a == RowOf(L.accounts, account_id)
  IN (a.free_credits + a.reward_credits + a.credits)
       - SignedTotal({t \in L.txs : t.account_id = account_id})

LiveChange(account_id, credit_type) ==
  SignedTotal({t \in After.txs : /\ \A b \in Before.txs : b.id # t.id
                                 /\ t.account_id = account_id
                                 /\ t.credit_type = credit_type})

\* C26: when a live balance mutation commits while a repair run is under
\* way, after the run's commit every bucket of every account holds its
\* value before the run, lowered by the differences of the repaired events
\* and changed by the live mutation, and every account that equalled the
\* signed sum of its transactions before the run still does.
C26_NoLostUpdate ==
  FirstRunCommitted =>
    \A a \in Before.accounts :
      /\ \A b \in CreditTypes :
           RowOf(After.accounts, a.id)[b]
             = (a[b] - SumDiff(Repaired(Before.events, a.id, b))) + LiveChange(a.id, b)
      /\ Drift(Before, a.id) = 0 => Drift(After, a.id) = 0

(***************************************************************************)
(* Rounding of the values returned by agent_action_cost.                   *)
(***************************************************************************)
HalfUp4(num, den) ==
  LET lo == (num \div (den * 10)) * 10
  IN IF 2 * (num - (lo * den)) >= 10 * den THEN lo + 10 ELSE lo

HalfUpMean(I) == IF I = {} THEN 100000 ELSE HalfUp4(SumRanks(I), Cardinality(I))

\* C27: every computed value returned by agent_action_cost is the exact
\* aggregate rounded to 4 decimal places half-up (a fifth decimal of exactly
\* 5 rounds away from zero), and each of low, medium and high without
\* aggregate is 1.0.
C27_RoundHalfUp ==
  (cost.pc = "done" /\ Cardinality(ActionIds) >= 10) =>
    LET n == Cardinality(ActionIds)
    IN /\ cost.result.avg_action_cost = HalfUpMean(1..n)
       /\ cost.result.min_action_cost = HalfUp4(RankedCost(1), 1)
       /\ cost.result.max_action_cost = HalfUp4(RankedCost(n), 1)
       /\ cost.result.low_action_cost = HalfUpMean({r \in 1..n : NtileQuintile(n, r) = 1})
       /\ cost.result.medium_action_cost =
            HalfUpMean({r \in 1..n : NtileQuintile(n, r) \in {2, 3, 4}})
       /\ cost.result.high_action_cost = HalfUpMean({r \in 1..n : NtileQuintile(n, r) = 5})

C27_Witness ==
  /\ cost.pc = "done"
  /\ Cardinality(ActionIds) = 10
  /\ SumRanks(1..10) = 1000250
  /\ cost.result.avg_action_cost = 100020

(***************************************************************************)
(* Partial repairs, accumulation and frame of the repair script.           *)
(***************************************************************************)
NeedsRepair(e) == e.event_type = "message" /\ e.total_amount # RightTotal(e)

HasPay(e) == \E t \in Before.txs : t.event_id = e.id /\ t.tx_type = "pay"

HasAccount(e) == \E a \in Before.accounts : a.id = e.account_id

WithoutPay(account_id) ==
  {e \in Before.events : NeedsRepair(e) /\ ~HasPay(e) /\ e.account_id = account_id}

\* C28: a committed repair run also repairs an event that has no PAY
\* transaction (total and balance_after rewritten, the account's bucket
\* lowered by the difference, the event counted as fixed, no transaction
\* changed) and an event whose account is missing (the event and its PAY
\* transaction rewritten, no account changed for it).  Every repair without
\* PAY transaction moves the account away from the signed sum of its
\* transactions by the difference, so an account that equalled that sum
\* before a single such repair no longer does.
C28_PartialRepair ==
  FirstRunCommitted =>
    /\ rep.history[1].fixed_count = Cardinality({e \in Before.events : NeedsRepair(e)})
    /\ \A e \in Before.events :
         (NeedsRepair(e) /\ ~HasPay(e)) =>
           /\ RowOf(After.events, e.id).total_amount = RightTotal(e)
           /\ e.balance_after # Null =>
                RowOf(After.events, e.id).balance_after = e.balance_after - Diff(e)
           /\ {t \in After.txs : t.event_id = e.id} = {t \in Before.txs : t.event_id = e.id}
    /\ \A e \in Before.events :
         (NeedsRepair(e) /\ ~HasAccount(e)) =>
           /\ RowOf(After.events, e.id).total_amount = RightTotal(e)
           /\ \A t \in Before.txs :
                (t.event_id = e.id /\ t.tx_type = "pay") =>
                  RowOf(After.txs, t.id).change_amount = RightTotal(e)
           /\ {a.id : a \in After.accounts} = {a.id : a \in Before.accounts}
    /\ \A a \in Before.accounts :
         /\ \A b \in CreditTypes :
              RowOf(After.accounts, a.id)[b] = a[b] - SumDiff(Repaired(Before.events, a.id, b))
         /\ Drift(After, a.id) = Drift(Before, a.id) - SumDiff(WithoutPay(a.id))
         /\ (Drift(Before, a.id) = 0 /\ Cardinality(WithoutPay(a.id)) = 1) =>
              Drift(After, a.id) # 0

C28_Witness ==
  /\ FirstRunCommitted
  /\ rep.history[1].fixed_count = 2
  /\ Drift(Before, 1) = 0
  /\ Drift(After, 1) = -10
  /\ \E e \in Before.events :
       /\ NeedsRepair(e) /\ ~HasPay(e) /\ e.account_id = 1 /\ Diff(e) = 10
       /\ e.credit_type = "credits"
       /\ RowOf(After.accounts, 1).credits = RowOf(Before.accounts, 1).credits - 10
  /\ \E e \in Before.events :
       /\ NeedsRepair(e) /\ HasPay(e) /\ ~HasAccount(e)
       /\ \E t \in After.txs : t.event_id = e.id /\ t.tx_type = "pay"
                                 /\ t.change_amount = RightTotal(e)
                                 /\ t \notin Before.txs

Processed(account_id, credit_type) ==
  {e \in Repaired(Before.events, account_id, credit_type) : e.id \notin rep.pending}

\* C29: the adjustments of several events of one account accumulate: while
\* a run is under way every bucket the run has touched holds its value
\* before the run minus the differences of the events of that account and
\* credit type repaired so far, whatever the order of the events, and after
\* the commit every bucket of every account is its value before the run
\* minus the sum of the differences of all the repaired events of that
\* account and credit type.
C29_AdjustmentsAccumulate ==
  /\ (rep.pc = "run" /\ Len(rep.history) = 0) =>
       \A s \in rep.s_accounts, b \in CreditTypes :
         s[b] = RowOf(Before.accounts, s.id)[b] - SumDiff(Processed(s.id, b))
  /\ FirstRunCommitted =>
       \A a \in Before.accounts, b \in CreditTypes :
         RowOf(After.accounts, a.id)[b] = a[b] - SumDiff(Repaired(Before.events, a.id, b))

C29_Witness ==
  /\ FirstRunCommitted
  /\ Cardinality(Repaired(Before.events, 1, "free_credits")) = 2
  /\ SumDiff(Repaired(Before.events, 1, "free_credits")) = 20
  /\ RowOf(Before.accounts, 1).free_credits = 500000
  /\ RowOf(After.accounts, 1).free_credits = 499980
  /\ RowOf(After.accounts, 1).credits = 500000

Ids(S) == {r.id : r \in S}

\* C30: a repair run, committed or failed, leaves unchanged every event
\* whose total is already right, every event that is not a message event,
\* every transaction that is not the PAY transaction of a repaired event and
\* every account that is not the account of a repaired event; it adds and
\* removes no row, and it never changes base_amount, fee_platform_amount or
\* fee_agent_amount (nor the id, type, account, credit type or creation
\* time) of any event.
C30_Frame ==
  FirstRunOver =>
    /\ Ids(After.events) = Ids(Before.events)
    /\ Ids(After.txs) = Ids(Before.txs)
    /\ Ids(After.accounts) = Ids(Before.accounts)
    /\ \A e \in Before.events :
         /\ (e.total_amount = RightTotal(e) \/ e.event_type # "message") => e \in After.events
         /\ RowOf(After.events, e.id)
              = [e EXCEPT !.total_amount = RowOf(After.events, e.id).total_amount,
                          !.balance_after = RowOf(After.events, e.id).balance_after]
    /\ \A t \in Before.txs :
         (t.tx_type # "pay" \/ \A e \in Before.events : NeedsRepair(e) => e.id # t.event_id)
           => t \in After.txs
    /\ \A a \in Before.accounts :
         (\A e \in Before.events : NeedsRepair(e) => e.account_id # a.id) => a \in After.accounts

C30_Witness ==
  /\ FirstRunCommitted
  /\ \E e \in Before.events :
       /\ NeedsRepair(e) /\ e.account_id = 1
       /\ e \notin After.events
       /\ \E t \in Before.txs : t.event_id = e.id /\ t.tx_type = "pay" /\ t \notin After.txs
       /\ \E t \in Before.txs : t.event_id = e.id /\ t.tx_type # "pay" /\ t \in After.txs
  /\ \E e \in Before.events :
       /\ e.event_type = "skill_call" /\ e.total_amount # RightTotal(e) /\ e.account_id = 1
       /\ e \in After.events
       /\ \E t \in Before.txs : t.event_id = e.id /\ t.tx_type = "pay" /\ t \in After.txs
  /\ RowOf(Before.accounts, 7) \in After.accounts
  /\ RowOf(Before.accounts, 1) \notin After.accounts

====
